---- MODULE Spec2Model ----
(***************************************************************************)
(* A model of the job cache (app/db/crud.py, app/db/models.py), of the     *)
(* cache-then-fetch-then-store protocol of JobService                      *)
(* (app/services/job_service.py), of the paginated fetch                   *)
(* (app/services/job_fetcher.py), of the cache key derivation, of the      *)
(* section splitter, of the recommendation endpoint (app/api/jobs.py) and  *)
(* the search script, of the ranking of JobService, and of the level       *)
(* detection, the job and section classifiers and the project and          *)
(* education extractors (app/services).                                    *)
(*                                                                         *)
(* Time is counted in days.  The database is PostgreSQL under READ         *)
(* COMMITTED: every statement reads the rows committed when it runs.  The  *)
(* ORM session is configured with autoflush=False (app/db/session.py), so  *)
(* pending changes reach the database only at commit.                      *)
(***************************************************************************)
EXTENDS Integers, Sequences, FiniteSets, TLC

VARIABLES
    now,            \* datetime.utcnow(), in days
    cachedJobs,     \* table cached_jobs: primary key id -> row
    searchQueries,  \* table search_queries: unique query_hash -> row
    sess,           \* per request: position, ORM session, locals
    lastStoreAt,    \* history: per key, the latest start time of a committed store
    hashSt,         \* generate_query_hash under equivalent inputs
    fetchSt,        \* JobFetcher.fetch_jobs
    splitSt,        \* split_into_sections
    rankSt,         \* get_job_recommendations and scripts/search_resume.py
    callSt          \* a call of one of the other functions and what it returned

vars == <<now, cachedJobs, searchQueries, sess, lastStoreAt,
          hashSt, fetchSt, splitSt, rankSt, callSt>>


(***************************************************************************)
(* Bounds of the model and constants of the program.                       *)
(***************************************************************************)
MaxTime == 3
MaxCount == 2
MaxBatch == 2
TtlDays == 2
\* generate_query_hash: the most characters in the arguments of a call, all
\* together, and the longest skill list.
MaxChars == 4
MaxSkills == 2
\* fetch_jobs: the most records on a page of the job source.
MaxRecords == 2
\* split_into_sections: the longest text.
MaxText == 7
\* Recommendations: the student and the entry-level jobs of a large index, the most
\* jobs in a small one, and the largest top_k asked for besides the default.
Students == 12
Entries == 8
MaxPool == 3
MaxTopK == 2
\* JobService: the most jobs in a list of candidates.
MaxCandidates == 3
\* detect_experience_level: the most years of experience a resume states, the most
\* education entries, and the most years written in the entries of one resume.
MaxYearsExperience == 9
MaxEducation == 2
MaxYearsWritten == 2
\* classify_job_level: the most keywords in a title and in a description.
MaxTitleKeywords == 2
MaxDescriptionKeywords == 1
\* classify_section: the most keywords in a heading and its content together.
MaxSectionKeywords == 3
\* extract_projects_from_section and extract_education_from_section: the most lines
\* in a block.
MaxProjectLines == 4
MaxEducationLines == 4
\* The cache keys of JobService: the most skills in a profile.
MaxProfileSkills == 11
\* The skill extractor: the most candidates in a set, and the most candidates the
\* strategies other than the explicit listings add.
MaxSkillCandidates == 3
MaxOtherCandidates == 1

Requests == {"r1", "r2"}
Keys == {"k1", "k2"}
JobIds == {"j1", "j2"}
Fields == {"f1", "f2"}

Min(a, b) == IF a < b THEN a ELSE b
Max(a, b) == IF a > b THEN a ELSE b

\* None: the value _normalize_job returns for a record it cannot normalize.
NoneJob == [none |-> TRUE]
Job(i, f) == [none |-> FALSE, id |-> i, fields |-> f]
JobEntries == {Job(i, f) : i \in JobIds, f \in Fields} \cup {NoneJob}

NoRow == [present |-> FALSE]
JobRow(f, h, e) == [present |-> TRUE, fields |-> f, hash |-> h, exp |-> e]
QueryRow(c, l, e) == [present |-> TRUE, count |-> c, last |-> l, exp |-> e]

NoObj == [held |-> FALSE]

\* A session between requests.  left: the fetched jobs the loop of
\* store_jobs_in_cache has not reached yet; want: per job id, the fields of its last
\* occurrence among the fetched jobs reached so far ("-": none).
IdleSession ==
    [pc |-> "idle", key |-> "k1", sq |-> NoObj, sqNew |-> FALSE, doomed |-> "no",
     left |-> 0, objs |-> [j \in JobIds |-> NoObj], want |-> [j \in JobIds |-> "-"],
     storeAt |-> 0, lookupAt |-> 0, ret |-> {}, calls |-> 0]

CacheInit ==
    /\ now = 0
    /\ cachedJobs = [j \in JobIds |-> NoRow]
    /\ searchQueries = [k \in Keys |-> NoRow]
    /\ sess = [r \in Requests |-> IdleSession]
    /\ lastStoreAt = [k \in Keys |-> -1]

InFlight(r) == sess[r].pc # "idle"

\* A request that has ended: the session is closed, its locals are gone.
Ended == IdleSession

\* A request whose session raised: rolled back, the exception on its way out.
Failed(why) == [IdleSession EXCEPT !.pc = "failed", !.doomed = why]

\* The columns an ORM object holds for a row, without the presence mark.
JobVals(row) == [fields |-> row.fields, hash |-> row.hash, exp |-> row.exp]
QueryVals(row) == [count |-> row.count, last |-> row.last, exp |-> row.exp]

\* The UPDATE the unit of work emits for a persistent object: only the columns
\* whose value differs from the value loaded are written.
UpdatedJob(row, obj) ==
    JobRow(IF obj.cur.fields # obj.loaded.fields THEN obj.cur.fields ELSE row.fields,
           IF obj.cur.hash # obj.loaded.hash THEN obj.cur.hash ELSE row.hash,
           IF obj.cur.exp # obj.loaded.exp THEN obj.cur.exp ELSE row.exp)

\* A bookkeeping update that also slides the expiry forward from the last access.
UpdatedQuerySliding(row, obj) ==
    QueryRow(obj.cur.count, obj.cur.last, obj.cur.last + TtlDays)

UpdatedQuery(row, obj) ==
    QueryRow(IF obj.cur.count # obj.loaded.count THEN obj.cur.count ELSE row.count,
             IF obj.cur.last # obj.loaded.last THEN obj.cur.last ELSE row.last,
             IF obj.cur.exp # obj.loaded.exp THEN obj.cur.exp ELSE row.exp)

\* Whether UPDATE search_queries ... WHERE id = :id of the session's SearchQuery
\* object matches a row: the row it was loaded from has not been deleted (a record
\* added later for the same hash has another id).
QueryRowOf(s) == s.sq.held /\ ~s.sq.gone

(***************************************************************************)
(* A request enters get_jobs_for_resume with a non-empty skill list; k is  *)
(* generate_query_hash(skills[:10], level, DEFAULT_LOCATION).              *)
(***************************************************************************)
Start(r, k) ==
    /\ ~InFlight(r)
    /\ sess' = [sess EXCEPT ![r] = [IdleSession EXCEPT !.pc = "check_query", !.key = k]]
    /\ UNCHANGED <<now, cachedJobs, searchQueries, lastStoreAt>>

\* The row SELECT SearchQuery WHERE query_hash = k AND expires_at > t returns, if any.
ValidQuery(k, t) == searchQueries[k].present /\ searchQueries[k].exp > t

\* check_cached_jobs, lines 36-51: SELECT the query record, touch its bookkeeping.
CheckQuery(r) ==
    LET s == sess[r]
        row == searchQueries[s.key]
    IN  /\ s.pc = "check_query"
        /\ IF ValidQuery(s.key, now)
           THEN /\ row.count < MaxCount
                /\ sess' = [sess EXCEPT ![r] =
                      [s EXCEPT !.pc = "check_jobs",
                                !.sq = [held |-> TRUE, gone |-> FALSE,
                                        loaded |-> QueryVals(row),
                                        cur |-> [count |-> row.count + 1, last |-> now,
                                                 exp |-> row.exp]]]]
           ELSE sess' = [sess EXCEPT ![r] = [s EXCEPT !.pc = "fetch"]]
        /\ UNCHANGED <<now, cachedJobs, searchQueries, lastStoreAt>>

\* A lookup that forgets the expiry filter.
ValidJobsAnyAge(k, t) ==
    {[id |-> j, fields |-> cachedJobs[j].fields, hash |-> cachedJobs[j].hash,
      exp |-> cachedJobs[j].exp] :
        j \in {i \in JobIds : cachedJobs[i].present /\ cachedJobs[i].hash = k}}

\* The rows SELECT CachedJob WHERE search_query_hash = k AND expires_at > t returns.
ValidJobs(k, t) ==
    {[id |-> j, fields |-> cachedJobs[j].fields, hash |-> cachedJobs[j].hash,
      exp |-> cachedJobs[j].exp] :
        j \in {i \in JobIds : /\ cachedJobs[i].present
                              /\ cachedJobs[i].hash = k
                              /\ cachedJobs[i].exp > t}}

\* check_cached_jobs, lines 53-63: SELECT the jobs; None (a miss) when there is none.
CheckJobs(r) ==
    LET s == sess[r]
        found == ValidJobs(s.key, now)
    IN  /\ s.pc = "check_jobs"
        /\ IF found = {}
           THEN sess' = [sess EXCEPT ![r] = [s EXCEPT !.pc = "fetch"]]
           ELSE sess' = [sess EXCEPT ![r] =
                    [s EXCEPT !.pc = "check_commit", !.ret = found, !.lookupAt = now]]
        /\ UNCHANGED <<now, cachedJobs, searchQueries, lastStoreAt>>

\* check_cached_jobs, lines 65-67, then job_service lines 67-83: commit the
\* bookkeeping, rank the cached jobs, log the search, return.  When the UPDATE
\* matches no row the commit raises StaleDataError.
CheckCommit(r) ==
    LET s == sess[r]
    IN  /\ s.pc = "check_commit"
        /\ IF QueryRowOf(s)
           THEN /\ searchQueries' = [searchQueries EXCEPT
                      ![s.key] = UpdatedQuery(searchQueries[s.key], s.sq)]
                /\ sess' = [sess EXCEPT ![r] = Ended]
           ELSE /\ sess' = [sess EXCEPT ![r] = Failed("stale")]
                /\ UNCHANGED searchQueries
        /\ UNCHANGED <<now, cachedJobs, lastStoreAt>>

\* job_service lines 87-91: one call of the job source, which returns n jobs; an
\* empty list ends the request, and get_db commits what the session holds.
Fetch(r) ==
    LET s == sess[r]
    IN  /\ s.pc = "fetch"
        /\ \E n \in 0..MaxBatch :
             IF n = 0
             THEN /\ sess' = [sess EXCEPT ![r] = Ended]
                  /\ searchQueries' =
                        IF QueryRowOf(s)
                        THEN [searchQueries EXCEPT
                                ![s.key] = UpdatedQuery(searchQueries[s.key], s.sq)]
                        ELSE searchQueries
             ELSE /\ sess' = [sess EXCEPT ![r] =
                        [s EXCEPT !.pc = "store_begin", !.left = n, !.calls = s.calls + 1]]
                  /\ UNCHANGED searchQueries
        /\ UNCHANGED <<now, cachedJobs, lastStoreAt>>

\* store_jobs_in_cache, lines 88-108: expires_at, SELECT the query record by hash,
\* update it or add a new one.
StoreBegin(r) ==
    LET s == sess[r]
        row == searchQueries[s.key]
        same == QueryRowOf(s)
        base == IF same THEN s.sq.cur ELSE QueryVals(row)
    IN  /\ s.pc = "store_begin"
        /\ row.present => base.count < MaxCount
        /\ sess' = [sess EXCEPT ![r] =
              [s EXCEPT !.pc = "merge", !.storeAt = now,
                        \* a modified object whose row is gone stays in the session
                        !.doomed = IF s.sq.held /\ ~same THEN "stale" ELSE "no",
                        !.sqNew = ~row.present,
                        !.sq = IF row.present
                               THEN [held |-> TRUE, gone |-> FALSE,
                                     loaded |-> IF same THEN s.sq.loaded ELSE QueryVals(row),
                                     cur |-> [count |-> base.count + 1, last |-> now,
                                              exp |-> now + TtlDays]]
                               ELSE NoObj]]
        /\ UNCHANGED <<now, cachedJobs, searchQueries, lastStoreAt>>

\* db.merge(cached_job), line 129: the object of the session that takes the values.
\* An object loaded as a row is in the identity map and is reused; a pending one is
\* not, so the primary key is looked up in the table.
Merged(o, row, val) ==
    IF o.held /\ ~o.new
    THEN [o EXCEPT !.cur = val]
    ELSE IF row.present
         THEN [held |-> TRUE, new |-> FALSE, loaded |-> JobVals(row), cur |-> val]
         ELSE [held |-> TRUE, new |-> TRUE, loaded |-> val, cur |-> val]

\* store_jobs_in_cache, lines 110-129: one turn of the loop over the fetched jobs.
Merge(r) ==
    LET s == sess[r]
    IN  /\ s.pc = "merge"
        /\ \E job \in JobEntries :
             IF job.none
             THEN \* job['id'] on None: TypeError, the session is rolled back
                  sess' = [sess EXCEPT ![r] = Failed("type_error")]
             ELSE LET o == s.objs[job.id]
                      val == [fields |-> job.fields, hash |-> s.key,
                              exp |-> s.storeAt + TtlDays]
                  IN  sess' = [sess EXCEPT ![r] =
                         [s EXCEPT !.objs[job.id] = Merged(o, cachedJobs[job.id], val),
                                   !.want[job.id] = job.fields,
                                   \* a second merge of a pending id adds a second
                                   \* INSERT of the same primary key
                                   !.doomed = IF o.held /\ o.new THEN "unique_job_id"
                                              ELSE s.doomed,
                                   !.left = s.left - 1,
                                   !.pc = IF s.left = 1 THEN "store_commit" ELSE "merge"]]
        /\ UNCHANGED <<now, cachedJobs, searchQueries, lastStoreAt>>

\* The exception the flush of db.commit() raises, "no" when it succeeds:
\* IntegrityError on search_queries.query_hash (unique) or cached_jobs.id (primary
\* key), StaleDataError when an UPDATE matches no row.
CommitError(s) ==
    IF s.doomed # "no" THEN s.doomed
    ELSE IF s.sqNew /\ searchQueries[s.key].present THEN "unique_query_hash"
    ELSE IF ~s.sqNew /\ ~QueryRowOf(s) THEN "stale"
    ELSE IF \E j \in JobIds : /\ s.objs[j].held
                              /\ s.objs[j].new
                              /\ cachedJobs[j].present THEN "unique_job_id"
    ELSE IF \E j \in JobIds : /\ s.objs[j].held
                              /\ ~s.objs[j].new
                              /\ s.objs[j].cur # s.objs[j].loaded
                              /\ ~cachedJobs[j].present THEN "stale"
    ELSE "no"

CommitFails(s) == CommitError(s) # "no"

\* The table cached_jobs after the flush of session s.
FlushedJobs(s) ==
    [j \in JobIds |->
        IF ~s.objs[j].held THEN cachedJobs[j]
        ELSE IF s.objs[j].new
             THEN JobRow(s.objs[j].cur.fields, s.objs[j].cur.hash, s.objs[j].cur.exp)
             ELSE IF cachedJobs[j].present
                  THEN UpdatedJob(cachedJobs[j], s.objs[j])
                  ELSE cachedJobs[j]]

\* store_jobs_in_cache, line 131, then job_service lines 105-118: flush and commit,
\* rank the fetched jobs, log the search, return.
StoreCommit(r) ==
    LET s == sess[r]
    IN  /\ s.pc = "store_commit"
        /\ IF CommitFails(s)
           THEN /\ sess' = [sess EXCEPT ![r] = Failed(CommitError(s))]
                /\ UNCHANGED <<cachedJobs, searchQueries, lastStoreAt>>
           ELSE /\ searchQueries' = [searchQueries EXCEPT ![s.key] =
                      IF s.sqNew
                      THEN QueryRow(1, now, s.storeAt + TtlDays)
                      ELSE UpdatedQuery(searchQueries[s.key], s.sq)]
                /\ cachedJobs' = FlushedJobs(s)
                /\ lastStoreAt' = [lastStoreAt EXCEPT
                                     ![s.key] = Max(lastStoreAt[s.key], s.storeAt)]
                /\ sess' = [sess EXCEPT ![r] = Ended]
        /\ UNCHANGED now

\* The exception of a failed commit reaches the endpoint, which answers 500.
Fail(r) ==
    /\ sess[r].pc = "failed"
    /\ sess' = [sess EXCEPT ![r] = Ended]
    /\ UNCHANGED <<now, cachedJobs, searchQueries, lastStoreAt>>

\* A sweep that also deletes the rows that expire within the next day.
CleanupAhead ==
    /\ cachedJobs' = [j \in JobIds |->
          IF cachedJobs[j].present /\ cachedJobs[j].exp <= now + 1 THEN NoRow
          ELSE cachedJobs[j]]
    /\ searchQueries' = [k \in Keys |->
          IF searchQueries[k].present /\ searchQueries[k].exp <= now + 1
          THEN NoRow ELSE searchQueries[k]]
    /\ sess' = [r \in Requests |->
          IF /\ sess[r].sq.held
             /\ searchQueries[sess[r].key].present
             /\ searchQueries[sess[r].key].exp <= now + 1
          THEN [sess[r] EXCEPT !.sq.gone = TRUE]
          ELSE sess[r]]
    /\ UNCHANGED <<now, lastStoreAt>>

\* jobs_deleted = result.rowcount of the DELETE on cached_jobs (crud.py 142-144).
jobs_deleted == Cardinality({j \in JobIds : cachedJobs[j].present /\ cachedJobs[j].exp <= now})

\* cleanup_expired_jobs: the scheduler's sweep.
Cleanup ==
    /\ cachedJobs' = [j \in JobIds |->
          IF cachedJobs[j].present /\ cachedJobs[j].exp <= now THEN NoRow ELSE cachedJobs[j]]
    /\ searchQueries' = [k \in Keys |->
          IF searchQueries[k].present /\ searchQueries[k].exp <= now
          THEN NoRow ELSE searchQueries[k]]
    \* a session's SearchQuery object outlives the row it was loaded from
    /\ sess' = [r \in Requests |->
          IF /\ sess[r].sq.held
             /\ searchQueries[sess[r].key].present
             /\ searchQueries[sess[r].key].exp <= now
          THEN [sess[r] EXCEPT !.sq.gone = TRUE]
          ELSE sess[r]]
    /\ UNCHANGED <<now, lastStoreAt>>

Tick ==
    /\ now < MaxTime
    /\ now' = now + 1
    /\ UNCHANGED <<cachedJobs, searchQueries, sess, lastStoreAt>>

\* The parts of the program a specification leaves at rest.
Off == [pc |-> "off"]

notCache == <<hashSt, fetchSt, splitSt, rankSt, callSt>>

Init == CacheInit /\ hashSt = Off /\ fetchSt = Off /\ splitSt = Off /\ rankSt = Off /\ callSt = Off

\* Requests that run one at a time, the sweep and the clock between their steps.
Next ==
    \/ (\E k \in Keys : Start("r1", k)) /\ UNCHANGED notCache
    \/ CheckQuery("r1") /\ UNCHANGED notCache
    \/ CheckJobs("r1") /\ UNCHANGED notCache
    \/ CheckCommit("r1") /\ UNCHANGED notCache
    \/ Fetch("r1") /\ UNCHANGED notCache
    \/ StoreBegin("r1") /\ UNCHANGED notCache
    \/ Merge("r1") /\ UNCHANGED notCache
    \/ StoreCommit("r1") /\ UNCHANGED notCache
    \/ Fail("r1") /\ UNCHANGED notCache
    \/ Cleanup /\ UNCHANGED notCache
    \/ Tick /\ UNCHANGED notCache

Spec == Init /\ [][Next]_vars

\* Requests that overlap, within a time too short for the clock to advance or the
\* sweep to run: the service takes no lock around the protocol.
NextRace ==
    \E r \in Requests :
        \/ (\E k \in Keys : Start(r, k)) /\ UNCHANGED notCache
        \/ CheckQuery(r) /\ UNCHANGED notCache
        \/ CheckJobs(r) /\ UNCHANGED notCache
        \/ CheckCommit(r) /\ UNCHANGED notCache
        \/ Fetch(r) /\ UNCHANGED notCache
        \/ StoreBegin(r) /\ UNCHANGED notCache
        \/ Merge(r) /\ UNCHANGED notCache
        \/ StoreCommit(r) /\ UNCHANGED notCache
        \/ Fail(r) /\ UNCHANGED notCache

SpecRace == Init /\ [][NextRace]_vars

(***************************************************************************)
(* generate_query_hash.  A string is a sequence of characters; the         *)
(* characters are a space, one letter in both cases, and the two           *)
(* separators the function writes.                                         *)
(***************************************************************************)
Chars == {" ", "A", "a"}

\* Code points: the order sorted() compares strings by.
Code == [c \in {" ", ",", "A", "a", "|"} |->
            CASE c = " " -> 32 [] c = "," -> 44 [] c = "A" -> 65 [] c = "a" -> 97
              [] c = "|" -> 124]

\* location: None, or a string.
NoLocation == [given |-> FALSE]
Location(str) == [given |-> TRUE, str |-> str]

\* str.lower()
LowerChar(c) == IF c = "A" THEN "a" ELSE c
Lower(str) == [i \in 1..Len(str) |-> LowerChar(str[i])]

\* Whitespace, as str.strip() and str.split() see it.
IsSpace(c) == c \in {" ", "\n"}

RECURSIVE LStrip(_)
LStrip(str) == IF str # <<>> /\ IsSpace(Head(str)) THEN LStrip(Tail(str)) ELSE str

RECURSIVE RStrip(_)
RStrip(str) ==
    IF str # <<>> /\ IsSpace(str[Len(str)])
    THEN RStrip(SubSeq(str, 1, Len(str) - 1)) ELSE str

\* str.strip()
Strip(str) == RStrip(LStrip(str))

\* A function that lowers the case and keeps the surrounding whitespace.
LowerOnly(str) == Lower(str)

\* s.lower().strip()
Normalized(str) == Strip(Lower(str))

RECURSIVE StrLess(_, _)
\* a < b on strings: lexicographic by code point.
StrLess(a, b) ==
    IF b = <<>> THEN FALSE
    ELSE IF a = <<>> THEN TRUE
    ELSE IF Head(a) # Head(b) THEN Code[Head(a)] < Code[Head(b)]
    ELSE StrLess(Tail(a), Tail(b))

RECURSIVE Insert(_, _)
Insert(x, sorted) ==
    IF sorted = <<>> THEN <<x>>
    ELSE IF StrLess(x, Head(sorted)) THEN <<x>> \o sorted
    ELSE <<Head(sorted)>> \o Insert(x, Tail(sorted))

RECURSIVE Sorted(_)
\* sorted(list)
Sorted(list) == IF list = <<>> THEN <<>> ELSE Insert(Head(list), Sorted(Tail(list)))

RECURSIVE Join(_, _)
\* sep.join(list)
Join(sep, list) ==
    IF list = <<>> THEN <<>>
    ELSE IF Len(list) = 1 THEN Head(list)
    ELSE Head(list) \o <<sep>> \o Join(sep, Tail(list))

\* hashlib.sha256(...).hexdigest(): distinct strings have distinct digests.
Sha256(str) == [sha256 |-> str]

generate_query_hash(skills, experience_level, location) ==
    LET skills_str == Join(",", Sorted([i \in 1..Len(skills) |-> Normalized(skills[i])]))
        exp_str == Normalized(experience_level)
        loc_str == Normalized(IF location.given THEN location.str ELSE <<>>)
    IN  Sha256(skills_str \o <<"|">> \o exp_str \o <<"|">> \o loc_str)

\* A call of generate_query_hash and the key it returned.
HashCall(skills, level, location, key0) ==
    [pc |-> "hashed", skills |-> skills, level |-> level, location |-> location,
     key |-> generate_query_hash(skills, level, location), key0 |-> key0]

\* The first call: no skill, an empty level, no location.
HashInit == hashSt = HashCall(<<>>, <<>>, NoLocation, generate_query_hash(<<>>, <<>>, NoLocation))

RECURSIVE TotalLen(_)
TotalLen(list) == IF list = <<>> THEN 0 ELSE Len(Head(list)) + TotalLen(Tail(list))

\* The characters in the arguments of the last call.
CharsUsed ==
    TotalLen(hashSt.skills) + Len(hashSt.level)
        + (IF hashSt.location.given THEN Len(hashSt.location.str) ELSE 0)

\* A call for a query that need not be the one of the last call.
NewCall(skills, level, location) ==
    hashSt' = HashCall(skills, level, location, generate_query_hash(skills, level, location))

\* The next call is for another query: one more skill, or one more character at the
\* end of a skill, of the level or of the location.
OtherQuery ==
    /\ hashSt.pc = "hashed"
    /\ \/ /\ Len(hashSt.skills) < MaxSkills
          /\ NewCall(Append(hashSt.skills, <<>>), hashSt.level, hashSt.location)
       \/ /\ CharsUsed < MaxChars
          /\ \E c \in Chars :
               \/ \E i \in 1..Len(hashSt.skills) :
                     NewCall([hashSt.skills EXCEPT ![i] = Append(hashSt.skills[i], c)],
                             hashSt.level, hashSt.location)
               \/ NewCall(hashSt.skills, Append(hashSt.level, c), hashSt.location)
               \/ /\ hashSt.location.given
                  /\ NewCall(hashSt.skills, hashSt.level,
                             Location(Append(hashSt.location.str, c)))

\* The other case of a letter.
SwapCase(c) == IF c = "A" THEN "a" ELSE IF c = "a" THEN "A" ELSE c

\* The strings that differ from str in the case of one letter or in one space at
\* either end.
Respelled(str) ==
    {[str EXCEPT ![i] = SwapCase(str[i])] : i \in 1..Len(str)}
    \cup (IF CharsUsed < MaxChars THEN {<<" ">> \o str, str \o <<" ">>} ELSE {})
    \cup (IF str # <<>> /\ Head(str) = " " THEN {Tail(str)} ELSE {})
    \cup (IF str # <<>> /\ str[Len(str)] = " " THEN {SubSeq(str, 1, Len(str) - 1)} ELSE {})

\* The next call passes the skills in another order.
PermuteSkills ==
    /\ hashSt.pc = "hashed"
    /\ \E i \in 1..(Len(hashSt.skills) - 1) :
         hashSt' = HashCall([hashSt.skills EXCEPT ![i] = hashSt.skills[i + 1],
                                                  ![i + 1] = hashSt.skills[i]],
                            hashSt.level, hashSt.location, hashSt.key0)

\* The next call spells one skill in another case or with other surrounding spaces.
RespellSkill ==
    /\ hashSt.pc = "hashed"
    /\ \E i \in 1..Len(hashSt.skills) : \E str \in Respelled(hashSt.skills[i]) :
         hashSt' = HashCall([hashSt.skills EXCEPT ![i] = str],
                            hashSt.level, hashSt.location, hashSt.key0)

RespellLevel ==
    /\ hashSt.pc = "hashed"
    /\ \E str \in Respelled(hashSt.level) :
         hashSt' = HashCall(hashSt.skills, str, hashSt.location, hashSt.key0)

RespellLocation ==
    /\ hashSt.pc = "hashed"
    /\ hashSt.location.given
    /\ \E str \in Respelled(hashSt.location.str) :
         hashSt' = HashCall(hashSt.skills, hashSt.level, Location(str), hashSt.key0)

\* The next call leaves out a location that was the empty string, or passes the
\* empty string for one that was left out.
ToggleNoLocation ==
    /\ hashSt.pc = "hashed"
    /\ \/ ~hashSt.location.given /\
          hashSt' = HashCall(hashSt.skills, hashSt.level, Location(<<>>), hashSt.key0)
       \/ hashSt.location = Location(<<>>) /\
          hashSt' = HashCall(hashSt.skills, hashSt.level, NoLocation, hashSt.key0)

notHash == <<now, cachedJobs, searchQueries, sess, lastStoreAt, fetchSt, splitSt, rankSt, callSt>>

InitHash == CacheInit /\ HashInit /\ fetchSt = Off /\ splitSt = Off /\ rankSt = Off /\ callSt = Off

NextHash ==
    \/ OtherQuery /\ UNCHANGED notHash
    \/ PermuteSkills /\ UNCHANGED notHash
    \/ RespellSkill /\ UNCHANGED notHash
    \/ RespellLevel /\ UNCHANGED notHash
    \/ RespellLocation /\ UNCHANGED notHash
    \/ ToggleNoLocation /\ UNCHANGED notHash

SpecHash == InitHash /\ [][NextHash]_vars

\* C2: the key is the same for every order of the skills, every letter case and
\* every surrounding whitespace of the skills, the level and the location, and for
\* a location left out as for the empty string: whatever sequence of such changes
\* leads from one call to another, the two calls return the same key.
C2_KeyInvariantUnderRespelling ==
    hashSt.pc = "hashed" => hashSt.key = hashSt.key0

\* A call whose two skills are out of order and spelled with a capital and a
\* surrounding space, with no location, after a first call that had a location.
C2_Witness ==
    /\ hashSt.pc = "hashed"
    /\ Len(hashSt.skills) = 2
    /\ hashSt.skills[1] = <<"a", "a">>
    /\ hashSt.skills[2] = <<" ", "A">>
    /\ hashSt.level = <<>>
    /\ ~hashSt.location.given
    /\ hashSt.key0 = generate_query_hash(<<<<"a">>, <<"a", "a">>>>, <<>>, Location(<<>>))
    /\ hashSt.key = hashSt.key0


(***************************************************************************)
(* JobFetcher.fetch_jobs: the loop over the pages of the job source.       *)
(***************************************************************************)
\* num_pages, as _fetch_jobs_from_api passes it.
NumPages == 3

\* A raw record of a page: one that _normalize_job can normalize, or not (a null
\* job_title, a null job_highlights, a record that is no object).
RawRecord(id) == [wellFormed |-> TRUE, job_id |-> id]
MalformedRecord == [wellFormed |-> FALSE]
RawRecords == {RawRecord(id) : id \in JobIds} \cup {MalformedRecord}

RECURSIVE PagesUpTo(_)
\* The pages of n records or less.
PagesUpTo(n) ==
    IF n = 0 THEN {<<>>}
    ELSE LET shorter == PagesUpTo(n - 1)
         IN  shorter \cup {Append(q, x) : q \in {t \in shorter : Len(t) = n - 1},
                                          x \in RawRecords}

\* _normalize_job: the normalized record, None when building it raised.
normalize_job(raw) == IF raw.wellFormed THEN Job(raw.job_id, "f1") ELSE NoneJob

\* What requests.get, raise_for_status and response.json() can end in, other than
\* a page of records.
PageErrors == {"timeout", "http_429", "http_5xx", "http_4xx", "request_error", "bad_body"}

\* A handler that gives up on every error.
BreakOnAnyError(err) == "break"

\* A handler that goes on to the next page after every error.
ContinueOnAnyError(err) == "continue"

\* The except clauses of the loop: what the loop does after each error.
AfterError(err) ==
    CASE err = "timeout" -> "continue"
      [] err = "http_429" -> "break"
      [] err = "http_5xx" -> "continue"
      [] err = "http_4xx" -> "break"
      [] err = "request_error" -> "continue"
      [] err = "bad_body" -> "continue"

\* log: the pages requested so far, each with its outcome and its raw records.
FetchInit == fetchSt = [pc |-> "loop", page |-> 1, all_jobs |-> <<>>, log |-> <<>>]

\* A page arrives: its records are normalized and appended.
PageOk ==
    /\ fetchSt.pc = "loop"
    /\ fetchSt.page <= NumPages
    /\ \E jobs \in PagesUpTo(MaxRecords) :
         fetchSt' = [fetchSt EXCEPT
            !.all_jobs = @ \o [i \in 1..Len(jobs) |-> normalize_job(jobs[i])],
            !.log = Append(@, [page |-> fetchSt.page, outcome |-> "ok", jobs |-> jobs]),
            !.page = @ + 1]

\* The request of a page raises.
PageFails ==
    /\ fetchSt.pc = "loop"
    /\ fetchSt.page <= NumPages
    /\ \E err \in PageErrors :
         fetchSt' = [fetchSt EXCEPT
            !.log = Append(@, [page |-> fetchSt.page, outcome |-> err, jobs |-> <<>>]),
            !.page = IF AfterError(err) = "break" THEN NumPages + 1 ELSE @ + 1]

\* return all_jobs
ReturnJobs ==
    /\ fetchSt.pc = "loop"
    /\ fetchSt.page > NumPages
    /\ fetchSt' = [fetchSt EXCEPT !.pc = "returned"]

notFetch == <<now, cachedJobs, searchQueries, sess, lastStoreAt, hashSt, splitSt, rankSt, callSt>>

InitFetch == CacheInit /\ hashSt = Off /\ FetchInit /\ splitSt = Off /\ rankSt = Off /\ callSt = Off

NextFetch ==
    \/ PageOk /\ UNCHANGED notFetch
    \/ PageFails /\ UNCHANGED notFetch
    \/ ReturnJobs /\ UNCHANGED notFetch

SpecFetch == InitFetch /\ [][NextFetch]_vars

RECURSIVE NormalizedOf(_)
\* The normalized records of the pages of a log, in order.
NormalizedOf(log) ==
    IF log = <<>> THEN <<>>
    ELSE NormalizedOf(SubSeq(log, 1, Len(log) - 1))
            \o [i \in 1..Len(log[Len(log)].jobs) |-> normalize_job(log[Len(log)].jobs[i])]

RECURSIVE WellFormedOf(_)
\* The well-formed raw records of the pages of a log, in order.
WellFormedOf(log) ==
    IF log = <<>> THEN <<>>
    ELSE WellFormedOf(SubSeq(log, 1, Len(log) - 1))
            \o SelectSeq(log[Len(log)].jobs, LAMBDA raw : raw.wellFormed)

\* C6: the pages are requested in order from page 1; after a timeout or a 5xx
\* answer on page p < num_pages the page p + 1 is requested; after a 429 answer no
\* further page is requested; in every case the jobs of the pages fetched before
\* are kept and fetch_jobs returns them.
C6_FetchSurvivesPageErrors ==
    fetchSt.pc \in {"loop", "returned"} =>
        /\ \A i \in 1..Len(fetchSt.log) :
              /\ fetchSt.log[i].page = i
              /\ fetchSt.log[i].outcome \in {"timeout", "http_5xx"} /\ i < NumPages
                    => \/ Len(fetchSt.log) > i
                       \/ fetchSt.pc = "loop" /\ fetchSt.page = i + 1
              /\ fetchSt.log[i].outcome = "http_429"
                    => Len(fetchSt.log) = i /\ fetchSt.page > NumPages
        /\ fetchSt.all_jobs = NormalizedOf(fetchSt.log)

\* fetch_jobs has returned the jobs of page 1 after a timeout on page 2 and a 429
\* answer on page 3.
C6_Witness ==
    /\ fetchSt.pc = "returned"
    /\ Len(fetchSt.log) = 3
    /\ fetchSt.log[1].outcome = "ok"
    /\ fetchSt.log[2].outcome = "timeout"
    /\ fetchSt.log[3].outcome = "http_429"
    /\ Len(fetchSt.all_jobs) = 2

\* C7: the list fetch_jobs returns holds the normalized record of every
\* well-formed raw record of the pages fetched, and no element for a malformed one.
C7_MalformedRecordsSkipped ==
    fetchSt.pc = "returned" =>
        /\ \A i \in 1..Len(fetchSt.all_jobs) : ~fetchSt.all_jobs[i].none
        /\ fetchSt.all_jobs =
              [i \in 1..Len(WellFormedOf(fetchSt.log)) |->
                  normalize_job(WellFormedOf(fetchSt.log)[i])]

\* C29: fetch_jobs issues at most num_pages requests, for the pages 1, 2, ... in
\* order, none twice; it issues none after a 429 answer or another HTTP error answer
\* with a status below 500; and as long as it has not returned it can take a step,
\* each step being a request or the return, so that it returns.
C29_AtMostNumPagesRequests ==
    fetchSt.pc \in {"loop", "returned"} =>
        /\ Len(fetchSt.log) <= NumPages
        /\ \A i \in 1..Len(fetchSt.log) :
              /\ fetchSt.log[i].page = i
              /\ fetchSt.log[i].outcome \in {"http_429", "http_4xx"}
                    => Len(fetchSt.log) = i /\ fetchSt.page > NumPages
        /\ fetchSt.pc = "loop" =>
              /\ fetchSt.page = Len(fetchSt.log) + 1 \/ fetchSt.page = NumPages + 1
              /\ ENABLED (PageOk \/ PageFails \/ ReturnJobs)

\* fetch_jobs has returned after a 404 answer on page 2, having requested page 1
\* and page 2 and no other.
C29_Witness ==
    /\ fetchSt.pc = "returned"
    /\ Len(fetchSt.log) = 2
    /\ fetchSt.log[1].outcome = "request_error"
    /\ fetchSt.log[2].outcome = "http_4xx"

(***************************************************************************)
(* split_into_sections and is_heading.  A text is a string over a line     *)
(* break, a space, two capital letters and a small letter.                 *)
(***************************************************************************)
TextChars == {"\n", " ", "A", "B", "x"}

RECURSIVE SplitLines(_)
\* text.split("\n")
SplitLines(text) ==
    IF \A i \in 1..Len(text) : text[i] # "\n" THEN <<text>>
    ELSE LET at == CHOOSE i \in 1..Len(text) :
                      text[i] = "\n" /\ \A j \in 1..(i - 1) : text[j] # "\n"
         IN  <<SubSeq(text, 1, at - 1)>> \o SplitLines(SubSeq(text, at + 1, Len(text)))

\* len(str.split()): the runs of characters that are not whitespace.
WordCount(str) ==
    Cardinality({i \in 1..Len(str) : ~IsSpace(str[i]) /\ (i = 1 \/ IsSpace(str[i - 1]))})

\* str.isupper(): a cased character, and no cased character in lower case.
IsUpper(str) ==
    /\ \E i \in 1..Len(str) : str[i] \in {"A", "B"}
    /\ \A i \in 1..Len(str) : str[i] # "x"

\* is_heading.  The rules on bullets, dates, '@+()', closing punctuation and
\* heading keywords need characters that no text here holds, which leaves the rule
\* on empty lines, the rule on the number of words and the rule on capitals.
is_heading(line) ==
    LET stripped == Strip(line)
        word_count == WordCount(stripped)
    IN  IF stripped = <<>> THEN FALSE
        ELSE IF word_count > 5 THEN FALSE
        ELSE IsUpper(stripped) /\ word_count <= 4

\* The key of the content that precedes the first heading.
Header == <<"h", "e", "a", "d", "e", "r">>

\* A dict in which a key that is there keeps its first value.
DictSetKeepFirst(dict, key, value) ==
    IF \E i \in 1..Len(dict) : dict[i].heading = key
    THEN dict
    ELSE Append(dict, [heading |-> key, content |-> value])

\* sections[key] = value on a dict: a key that is there keeps its place.
DictSet(dict, key, value) ==
    IF \E i \in 1..Len(dict) : dict[i].heading = key
    THEN [i \in 1..Len(dict) |->
            IF dict[i].heading = key THEN [heading |-> key, content |-> value] ELSE dict[i]]
    ELSE Append(dict, [heading |-> key, content |-> value])

\* A splitter that stores the lines of a section as they are.
SealedUntrimmed(sections, current_heading, current_content) ==
    IF current_content # <<>>
    THEN DictSet(sections, current_heading, Join("\n", current_content))
    ELSE sections

\* if current_content: sections[current_heading] = "\n".join(current_content).strip()
Sealed(sections, current_heading, current_content) ==
    IF current_content # <<>>
    THEN DictSet(sections, current_heading, Strip(Join("\n", current_content)))
    ELSE sections

RECURSIVE SplitLoop(_, _, _, _)
\* The loop over the lines, and the sealing of the last section after it.
SplitLoop(lines, sections, current_heading, current_content) ==
    IF lines = <<>> THEN Sealed(sections, current_heading, current_content)
    ELSE IF is_heading(Head(lines))
         THEN SplitLoop(Tail(lines), Sealed(sections, current_heading, current_content),
                        Strip(Head(lines)), <<>>)
         ELSE SplitLoop(Tail(lines), sections, current_heading,
                        Append(current_content, Head(lines)))

split_into_sections(text) ==
    SelectSeq(SplitLoop(SplitLines(text), <<>>, Header, <<>>),
              LAMBDA section : section.content # <<>>)

\* A call of split_into_sections and the sections it returned.
SplitCall(text) == [pc |-> "split", text |-> text, sections |-> split_into_sections(text)]

SplitInit == splitSt = SplitCall(<<>>)

\* The next call is for the text of the last call with one more character.
LongerText ==
    /\ splitSt.pc = "split"
    /\ Len(splitSt.text) < MaxText
    /\ \E c \in TextChars : splitSt' = SplitCall(Append(splitSt.text, c))

notSplit == <<now, cachedJobs, searchQueries, sess, lastStoreAt, hashSt, fetchSt, rankSt, callSt>>

InitSplit == CacheInit /\ hashSt = Off /\ fetchSt = Off /\ SplitInit /\ rankSt = Off /\ callSt = Off

NextSplit == LongerText /\ UNCHANGED notSplit

SpecSplit == InitSplit /\ [][NextSplit]_vars

RECURSIVE BlocksOf(_, _)
BlocksOf(lines, blocks) ==
    IF lines = <<>> THEN blocks
    ELSE IF is_heading(Head(lines))
         THEN BlocksOf(Tail(lines),
                       Append(blocks, [heading |-> Strip(Head(lines)), body |-> <<>>]))
         ELSE BlocksOf(Tail(lines),
                       [blocks EXCEPT ![Len(blocks)].body = Append(@, Head(lines))])

\* The document as its author sees it: the lines before the first heading, then
\* each heading line with the lines under it.
Blocks(text) == BlocksOf(SplitLines(text), <<[heading |-> Header, body |-> <<>>]>>)

RECURSIVE Flat(_)
\* The concatenation of a sequence of sequences.
Flat(seqs) == IF seqs = <<>> THEN <<>> ELSE Head(seqs) \o Flat(Tail(seqs))

\* The lines of a block without the whitespace at the two ends of the block.
TrimmedBody(body) ==
    LET content == Strip(Join("\n", body))
    IN  IF content = <<>> THEN <<>> ELSE SplitLines(content)

\* The lines of the document, heading lines trimmed and every block trimmed.
Canon(text) ==
    LET blocks == Blocks(text)
    IN  Flat([i \in 1..Len(blocks) |->
                (IF i = 1 THEN <<>> ELSE <<blocks[i].heading>>)
                    \o TrimmedBody(blocks[i].body)])

\* The ways to put each section after a heading line that carries its heading
\* (the content of "header" before the first heading line).
Placements(text, sections) ==
    LET blocks == Blocks(text)
    IN  {place \in [1..Len(sections) -> 1..Len(blocks)] :
            \A k \in 1..Len(sections) : blocks[place[k]].heading = sections[k].heading}

\* The heading lines consumed, in order, with the content of each section at its
\* place.
Reassembled(text, sections, place) ==
    LET blocks == Blocks(text)
        content(i) ==
            IF \E k \in 1..Len(sections) : place[k] = i
            THEN SplitLines(sections[CHOOSE k \in 1..Len(sections) : place[k] = i].content)
            ELSE <<>>
    IN  Flat([i \in 1..Len(blocks) |->
                (IF i = 1 THEN <<>> ELSE <<blocks[i].heading>>) \o content(i)])

\* The sections come in the order in which their headings first occur.
InDocumentOrder(text, sections) ==
    LET blocks == Blocks(text)
        at(k) == CHOOSE i \in 1..Len(blocks) :
                    /\ blocks[i].heading = sections[k].heading
                    /\ \A j \in 1..(i - 1) : blocks[j].heading # blocks[i].heading
    IN  /\ \A k \in 1..Len(sections) :
              \E i \in 1..Len(blocks) : blocks[i].heading = sections[k].heading
        /\ \A k \in 1..(Len(sections) - 1) : at(k) < at(k + 1)

\* No two heading lines of the document carry the same text.
DistinctHeadings(text) ==
    LET blocks == Blocks(text)
    IN  \A i, j \in 1..Len(blocks) : i # j => blocks[i].heading # blocks[j].heading

\* The lines that are not blank, each without the whitespace around it.
NonBlankTrimmed(lines) ==
    SelectSeq([i \in 1..Len(lines) |-> Strip(lines[i])], LAMBDA line : line # <<>>)

\* C9 (as stated): for any document the sections in order, each content with the
\* heading lines consumed, reproduce the lines of the document; compared here after
\* dropping blank lines and the whitespace around each line, and with each section
\* put after whichever line of its heading fits, all of which the statement implies.
C9_RoundTripAnyDocument ==
    splitSt.pc = "split" =>
        \E place \in Placements(splitSt.text, splitSt.sections) :
            NonBlankTrimmed(Reassembled(splitSt.text, splitSt.sections, place))
                = NonBlankTrimmed(SplitLines(splitSt.text))

\* C9 (amended): for a document in which no two heading lines carry the same text,
\* the sections come in document order, and the heading lines consumed, each
\* followed by the content of its section, reproduce the lines of the document
\* with every heading line trimmed and every block of lines under a heading trimmed
\* as a whole.
C9_RoundTripDistinctHeadings ==
    splitSt.pc = "split" /\ DistinctHeadings(splitSt.text) =>
        /\ InDocumentOrder(splitSt.text, splitSt.sections)
        /\ Placements(splitSt.text, splitSt.sections) # {}
        /\ \A place \in Placements(splitSt.text, splitSt.sections) :
              Reassembled(splitSt.text, splitSt.sections, place) = Canon(splitSt.text)

\* A document of two headings with different texts, each with a line under it.
C9_Witness ==
    /\ splitSt.pc = "split"
    /\ splitSt.text = <<"A", "\n", "x", "\n", "B", "\n", "x">>
    /\ DistinctHeadings(splitSt.text)
    /\ Len(splitSt.sections) = 2

\* The places in the document of the heading lines that carry a heading.
Occurrences(text, heading) ==
    {i \in 2..Len(Blocks(text)) : Blocks(text)[i].heading = heading}

\* The headings that occur more than once in the document.
RepeatedHeadings(text) ==
    {Blocks(text)[i].heading : i \in {j \in 2..Len(Blocks(text)) :
                                   Cardinality(Occurrences(text, Blocks(text)[j].heading)) > 1}}

SectionsOf(sections, heading) ==
    {k \in 1..Len(sections) : sections[k].heading = heading}

Last(set) == CHOOSE i \in set : \A j \in set : j <= i

\* C22 (as stated): for a heading that occurs more than once there is one section,
\* with the content of the last occurrence; and no section has empty content.
C22_LaterOccurrenceOverwrites ==
    splitSt.pc = "split" =>
        /\ \A k \in 1..Len(splitSt.sections) : splitSt.sections[k].content # <<>>
        /\ \A heading \in RepeatedHeadings(splitSt.text) :
              \E k \in 1..Len(splitSt.sections) :
                  /\ SectionsOf(splitSt.sections, heading) = {k}
                  /\ splitSt.sections[k].content
                       = Strip(Join("\n", Blocks(splitSt.text)
                                 [Last(Occurrences(splitSt.text, heading))].body))

\* C22 (amended): for a heading that occurs more than once there is at most one
\* section; its content is the trimmed content of the last occurrence that has a
\* line under it, and there is none when no occurrence has a line under it or that
\* content is empty after trimming; and no section has empty content.
C22_LastOccurrenceWithLines ==
    splitSt.pc = "split" =>
        /\ \A k \in 1..Len(splitSt.sections) : splitSt.sections[k].content # <<>>
        /\ \A heading \in RepeatedHeadings(splitSt.text) :
              LET blocks == Blocks(splitSt.text)
                  withLines == {i \in Occurrences(splitSt.text, heading) :
                                   blocks[i].body # <<>>}
                  content == IF withLines = {} THEN <<>>
                             ELSE Strip(Join("\n", blocks[Last(withLines)].body))
              IN  IF content = <<>>
                  THEN SectionsOf(splitSt.sections, heading) = {}
                  ELSE \E k \in 1..Len(splitSt.sections) :
                          /\ SectionsOf(splitSt.sections, heading) = {k}
                          /\ splitSt.sections[k].content = content

\* A heading with a blank line under it, and the same heading again with a line of
\* text under it, which is the content returned.
C22_Witness ==
    /\ splitSt.pc = "split"
    /\ splitSt.text = <<"A", "\n", " ", "\n", "A", "\n", "x">>
    /\ RepeatedHeadings(splitSt.text) = {<<"A">>}
    /\ splitSt.sections = <<[heading |-> <<"A">>, content |-> <<"x">>]>>

(***************************************************************************)
(* POST /jobs/recommend and VectorStore.search.  An index is the sequence  *)
(* of the levels of its jobs in the order of their distance to the query,  *)
(* nearest first, with the place in it of the job that job_metadata ends   *)
(* with.  A job is named by its place; the job at place i is at distance   *)
(* i.                                                                      *)
(***************************************************************************)
Levels == {"student", "entry", "mid", "senior", "lead"}

\* top_k of JobRecommendationRequest when the request gives none.
DefaultTopK == 10
\* k of the entry-level search of the student branch.
EntryK == 5
\* k of the search for the other levels.
PoolK == 50

Index(pool, last) == [pool |-> pool, last |-> last]

\* The number of jobs of a level in an order of distance.
CountOf(level, q) == Cardinality({i \in DOMAIN q : q[i] = level})

\* The levels of the DefaultTopK nearest jobs of an index of Students student jobs
\* and Entries entry-level jobs, in every order of distance.
NearestOrders ==
    {q \in [1..DefaultTopK -> {"student", "entry"}] :
        CountOf("student", q) <= Students /\ CountOf("entry", q) <= Entries}

\* The jobs farther than the DefaultTopK nearest: no search of the student branch
\* reads them (its k are top_k and EntryK), so one order of them stands for all.
Farther(q) ==
    [i \in 1..(Students + Entries - DefaultTopK) |->
        IF i <= Students - CountOf("student", q) THEN "student" ELSE "entry"]

\* The indexes of Students student jobs and Entries entry-level jobs.  They hold
\* more jobs than any k of the student branch, so job_metadata[-1] is not read
\* there; it is the farthest job.
LargeIndexes == {Index(q \o Farther(q), Students + Entries) : q \in NearestOrders}

\* The indexes of MaxPool jobs or less, of any levels.
SmallIndexes ==
    UNION {{Index(pool, last) : pool \in [1..n -> Levels], last \in 1..n} : n \in 1..MaxPool}

\* similarity = 1 / (1 + dist), as a fraction.
Similarity(dist) == [num |-> 1, den |-> 1 + dist]
ScoreLess(a, b) == a.num * b.den < b.num * a.den

Hit(index, place, dist) ==
    [job |-> place, level |-> index.pool[place], score |-> Similarity(dist)]

\* VectorStore.search(query, k, filters).  index.search returns the k nearest jobs;
\* when the index holds fewer it fills up with the index -1 and the largest
\* distance, and job_metadata[-1] is the last job of the metadata.  The filter on
\* the level is applied to the k jobs found.
search(index, k, level) ==
    LET n == Len(index.pool)
        found == [i \in 1..k |->
                    IF i <= n THEN Hit(index, i, i) ELSE Hit(index, index.last, n + 1)]
    IN  SelectSeq(found, LAMBDA hit : level = "any" \/ hit.level = level)

RECURSIVE InsertByScore(_, _)
InsertByScore(hit, sorted) ==
    IF sorted = <<>> THEN <<hit>>
    ELSE IF ScoreLess(Head(sorted).score, hit.score) THEN <<hit>> \o sorted
    ELSE <<Head(sorted)>> \o InsertByScore(hit, Tail(sorted))

RECURSIVE SortedByScore(_, _)
\* sorted(results, key=lambda x: x[1], reverse=True): stable, best score first.
SortedByScore(results, sorted) ==
    IF results = <<>> THEN sorted
    ELSE SortedByScore(Tail(results), InsertByScore(Head(results), sorted))

\* list[:n]
Take(list, n) == SubSeq(list, 1, Min(n, Len(list)))

\* A table that shows senior jobs to an entry-level request.
AllowedLevelsWide(exp_level) ==
    CASE exp_level = "entry" -> {"entry", "mid", "senior"}
      [] exp_level = "mid" -> {"entry", "mid", "senior"}
      [] exp_level = "senior" -> {"mid", "senior", "lead"}
      [] exp_level = "lead" -> {"senior", "lead"}
      [] OTHER -> {"mid"}

\* The levels shown to a request of a level other than student.
allowed_levels(exp_level) ==
    CASE exp_level = "entry" -> {"entry", "mid"}
      [] exp_level = "mid" -> {"entry", "mid", "senior"}
      [] exp_level = "senior" -> {"mid", "senior", "lead"}
      [] exp_level = "lead" -> {"senior", "lead"}
      [] OTHER -> {"mid"}

\* The results of get_job_recommendations, lines 73-103.
recommend(index, experience_level, top_k) ==
    LET exp_level == IF experience_level = "none" THEN "entry" ELSE experience_level
    IN  IF exp_level = "student"
        THEN LET results_intern == search(index, top_k, "student")
                 results_entry == search(index, EntryK, "entry")
             IN  Take(SortedByScore(results_intern \o results_entry, <<>>), top_k)
        ELSE Take(SelectSeq(search(index, PoolK, "any"),
                            LAMBDA hit : hit.level \in allowed_levels(exp_level)),
                  top_k)

\* A request on its way in.  bound: whether the names vector_store and embedder of
\* the module are set in the process; the module's own loader is commented out, so
\* they are set only where a caller of the module has set them.
Asked(bound, index, experience_level, top_k) ==
    [pc |-> "asked", bound |-> bound, index |-> index, level |-> experience_level,
     top_k |-> top_k, results |-> <<>>]

\* k of the student search of scripts/search_resume.py.
InternK == 15
\* The number of matches scripts/search_resume.py keeps.
ScriptTopK == 10

\* The if/elif chain of scripts/search_resume.py, lines 112-120.
script_allowed_levels(level) ==
    IF level = "entry" THEN {"entry", "mid"}
    ELSE IF level = "mid" THEN {"entry", "mid", "senior"}
    ELSE IF level = "senior" THEN {"mid", "senior", "lead"}
    ELSE {"senior", "lead"}

\* The results of main() of scripts/search_resume.py, lines 93-127.
script_results(index, level, is_student, seeking_internship) ==
    IF is_student \/ seeking_internship
    THEN LET results_intern == search(index, InternK, "student")
             results_entry == search(index, EntryK, "entry")
         IN  Take(SortedByScore(results_intern \o results_entry, <<>>), ScriptTopK)
    ELSE Take(SelectSeq(search(index, PoolK, "any"),
                        LAMBDA hit : hit.level \in script_allowed_levels(level)),
              ScriptTopK)

\* What parse_resume hands to the script: the level is student exactly when one of
\* the two flags is set (resume_parser.py 100-109), else one of the four others.
ParsedLevels ==
    {info \in [level : Levels, is_student : BOOLEAN, seeking_internship : BOOLEAN] :
        (info.level = "student") <=> (info.is_student \/ info.seeking_internship)}

\* A run of the script with the index loaded (line 76) and the resume parsed.
ScriptRun(index, info) ==
    [pc |-> "script", bound |-> TRUE, index |-> index, level |-> info.level,
     is_student |-> info.is_student, seeking_internship |-> info.seeking_internship,
     top_k |-> ScriptTopK, results |-> <<>>]

\* The values of experience_level of a request: a level, none, or another string.
RequestLevels == Levels \cup {"none", "other"}

RankInit ==
    \/ \E bound \in BOOLEAN, index \in LargeIndexes :
           rankSt = Asked(bound, index, "student", DefaultTopK)
    \/ \E bound \in BOOLEAN, index \in SmallIndexes, level \in RequestLevels,
           top_k \in (1..MaxTopK) \cup {DefaultTopK} :
           rankSt = Asked(bound, index, level, top_k)
    \/ \E index \in SmallIndexes, info \in ParsedLevels : rankSt = ScriptRun(index, info)

\* get_job_recommendations: line 62 reads vector_store, a name the module never
\* sets, which raises NameError before the handler's try block.
Recommend ==
    /\ rankSt.pc = "asked"
    /\ rankSt' = IF rankSt.bound
                 THEN [rankSt EXCEPT !.pc = "answered",
                          !.results = recommend(rankSt.index, rankSt.level, rankSt.top_k)]
                 ELSE [rankSt EXCEPT !.pc = "error"]

\* main() of scripts/search_resume.py from the search on.
SearchResume ==
    /\ rankSt.pc = "script"
    /\ rankSt' = [rankSt EXCEPT !.pc = "printed",
                     !.results = script_results(rankSt.index, rankSt.level, rankSt.is_student,
                                                rankSt.seeking_internship)]

notRank ==
    <<now, cachedJobs, searchQueries, sess, lastStoreAt, hashSt, fetchSt, splitSt, callSt>>

InitRank ==
    CacheInit /\ hashSt = Off /\ fetchSt = Off /\ splitSt = Off /\ RankInit /\ callSt = Off

NextRank ==
    \/ Recommend /\ UNCHANGED notRank
    \/ SearchResume /\ UNCHANGED notRank

SpecRank == InitRank /\ [][NextRank]_vars

\* C10: a student-level request with top_k = 10 over 12 student and 8 entry-level
\* jobs, whatever their order of score, is answered with exactly 10 jobs, sorted by
\* score, best first, with jobs of both levels among them.  Stated for the processes
\* in which the index is loaded.
C10_StudentFallbackScenario ==
    /\ rankSt.pc \in {"answered", "error"}
    /\ rankSt.bound
    /\ rankSt.level = "student"
    /\ rankSt.top_k = 10
    /\ Len(rankSt.index.pool) = 20
    /\ Cardinality({i \in 1..20 : rankSt.index.pool[i] = "student"}) = 12
    /\ Cardinality({i \in 1..20 : rankSt.index.pool[i] = "entry"}) = 8
    => /\ rankSt.pc = "answered"
       /\ Len(rankSt.results) = 10
       /\ \E i \in 1..Len(rankSt.results) : rankSt.results[i].level = "student"
       /\ \E i \in 1..Len(rankSt.results) : rankSt.results[i].level = "entry"
       /\ \A i \in 1..(Len(rankSt.results) - 1) :
             ~ScoreLess(rankSt.results[i].score, rankSt.results[i + 1].score)

RECURSIVE IsSubsequence(_, _)
\* The elements of a, in their order, are among the elements of b in its order.
IsSubsequence(a, b) ==
    IF a = <<>> THEN TRUE
    ELSE IF b = <<>> THEN FALSE
    ELSE IF Head(a) = Head(b) THEN IsSubsequence(Tail(a), Tail(b))
    ELSE IsSubsequence(a, Tail(b))

\* The adjacency table of the levels.
Adjacency ==
    [entry |-> {"entry", "mid"}, mid |-> {"entry", "mid", "senior"},
     senior |-> {"mid", "senior", "lead"}, lead |-> {"senior", "lead"}]

AdjacentTo(level) == IF level \in DOMAIN Adjacency THEN Adjacency[level] ELSE {"mid"}

\* The level a request or a run of the script filters for, and whether it took the
\* branch of the adjacency table.
FilterLevel == IF rankSt.level = "none" THEN "entry" ELSE rankSt.level

NonStudentDone ==
    \/ rankSt.pc = "answered" /\ FilterLevel # "student"
    \/ rankSt.pc = "printed" /\ ~(rankSt.is_student \/ rankSt.seeking_internship)

\* C11: at both places that filter by level, a request or run at a level other than
\* student gets only jobs of a level adjacent to its own (a level outside the table
\* gets mid only), at most top_k of them, in the order of the unfiltered pool.
C11_LevelFilterAdjacency ==
    NonStudentDone =>
        /\ \A i \in 1..Len(rankSt.results) :
              rankSt.results[i].level \in AdjacentTo(FilterLevel)
        /\ Len(rankSt.results) <= rankSt.top_k
        /\ IsSubsequence(rankSt.results, search(rankSt.index, PoolK, "any"))

\* A senior request answered with top_k jobs, where the nearest job of the index
\* is an entry-level one that the filter left out.
C11_Witness ==
    /\ rankSt.pc = "answered"
    /\ rankSt.level = "senior"
    /\ rankSt.top_k = 2
    /\ rankSt.index.pool = <<"entry", "lead", "mid">>
    /\ Len(rankSt.results) = 2
    /\ rankSt.results[1].job = 2

(***************************************************************************)
(* JobService: get_jobs_for_resume, search_jobs_by_query and _rank_jobs.   *)
(* An embedding is a vector of two integer coordinates.  A similarity is   *)
(* kept exact, as the dot product and the product of the two squared       *)
(* norms: its value is dot / sqrt(n2).                                     *)
(***************************************************************************)
Embeddings == {<<1, 0>>, <<1, 1>>, <<0, 1>>, <<-1, 1>>}

Dot(a, b) == a[1] * b[1] + a[2] * b[2]

\* np.dot of the two vectors as they are.
Unnormalized(job_embedding, resume_embedding) ==
    [dot |-> Dot(job_embedding, resume_embedding), n2 |-> 1]

\* np.dot(job_norms, resume_norm), each vector divided by its norm first.
Cosine(job_embedding, resume_embedding) ==
    [dot |-> Dot(job_embedding, resume_embedding),
     n2 |-> Dot(job_embedding, job_embedding) * Dot(resume_embedding, resume_embedding)]

\* a < b as numbers, for two similarities.
MatchLess(a, b) ==
    IF a.dot < 0 /\ b.dot >= 0 THEN TRUE
    ELSE IF a.dot >= 0 /\ b.dot < 0 THEN FALSE
    ELSE IF a.dot >= 0 THEN a.dot * a.dot * b.n2 < b.dot * b.dot * a.n2
    ELSE a.dot * a.dot * b.n2 > b.dot * b.dot * a.n2

\* The candidate lists: jobs named by their place, each with the embedding of its
\* text.  The text of a normalized job is never empty (its location is).
JobLists ==
    UNION {{[i \in 1..n |-> [id |-> i, embedding |-> f[i]]] : f \in [1..n -> Embeddings]} :
              n \in 0..MaxCandidates}

\* job['match_score'] = float(score), for every job of the list.
Scored(jobs, resume_embedding) ==
    [i \in 1..Len(jobs) |->
        [id |-> jobs[i].id, match_score |-> Cosine(jobs[i].embedding, resume_embedding)]]

RECURSIVE InsertByMatchScore(_, _)
InsertByMatchScore(job, sorted) ==
    IF sorted = <<>> THEN <<job>>
    ELSE IF MatchLess(Head(sorted).match_score, job.match_score) THEN <<job>> \o sorted
    ELSE <<Head(sorted)>> \o InsertByMatchScore(job, Tail(sorted))

RECURSIVE SortedByMatchScore(_, _)
SortedByMatchScore(jobs, sorted) ==
    IF jobs = <<>> THEN sorted
    ELSE SortedByMatchScore(Tail(jobs), InsertByMatchScore(Head(jobs), sorted))

\* A ranking that leaves the jobs in the order in which they came.
RankedAsGiven(jobs) == jobs

\* sorted(jobs, key=lambda x: x['match_score'], reverse=True)
Ranked(jobs) == SortedByMatchScore(jobs, <<>>)

Returned(jobs) == [error |-> "no", jobs |-> jobs]
Raised(error) == [error |-> error, jobs |-> <<>>]

\* _rank_jobs.  text_empty: _create_resume_embedding_text gave "", on which
\* embed_text raises ValueError.
rank_jobs(jobs, text_empty, resume_embedding, top_k) ==
    IF jobs = <<>> THEN Returned(<<>>)
    ELSE IF text_empty THEN Raised("ValueError")
    ELSE Returned(Take(Ranked(Scored(jobs, resume_embedding)), top_k))

\* The two entry points of the service.
EntryPoints == {"get_jobs_for_resume", "search_jobs_by_query"}

\* How store_jobs_in_cache can end (Spec, SpecRace).
StoreOutcomes == {"no", "TypeError", "IntegrityError"}

\* A call of an entry point.  skills_empty: the profile has no skill; resume: the
\* embedding of the text of the profile, where it has one.
ServiceCall(entry, skills_empty, resume, top_k) ==
    [pc |-> "called", entry |-> entry, skills_empty |-> skills_empty, resume |-> resume,
     top_k |-> top_k, candidates |-> <<>>, jobs |-> <<>>, error |-> "no"]

ServiceInit ==
    callSt \in {ServiceCall(entry, skills_empty, resume, top_k) :
                   entry \in EntryPoints, skills_empty \in BOOLEAN,
                   resume \in Embeddings, top_k \in 0..MaxTopK}

\* The text _rank_jobs embeds.  The resume of get_jobs_for_resume has skills when it
\* gets there; the search context holds skills, experience_level, query and
\* raw_text only, so its text is empty exactly when it has no skill.
TextEmpty == callSt.entry = "search_jobs_by_query" /\ callSt.skills_empty

\* The end of a call with what _rank_jobs gave for the candidates.
RankAndReturn(candidates) ==
    LET out == rank_jobs(candidates, TextEmpty, callSt.resume, callSt.top_k)
    IN  callSt' = [callSt EXCEPT !.pc = IF out.error = "no" THEN "returned" ELSE "raised",
                                 !.candidates = candidates, !.jobs = out.jobs,
                                 !.error = out.error]

\* get_jobs_for_resume, lines 50-52.
NoSkills ==
    /\ callSt.pc = "called"
    /\ callSt.entry = "get_jobs_for_resume"
    /\ callSt.skills_empty
    /\ callSt' = [callSt EXCEPT !.pc = "returned"]

\* check_cached_jobs and what follows a hit.  search_jobs_by_query keeps the cached
\* jobs that hold the query and ranks them if there are top_k of them.
CheckCache ==
    /\ callSt.pc = "called"
    /\ ~(callSt.entry = "get_jobs_for_resume" /\ callSt.skills_empty)
    /\ \E cached_jobs \in JobLists, keep \in SUBSET (1..MaxCandidates) :
          LET filtered == SelectSeq(cached_jobs, LAMBDA job : job.id \in keep)
          IN  IF callSt.entry = "get_jobs_for_resume"
              THEN /\ keep = {}
                   /\ IF cached_jobs # <<>> THEN RankAndReturn(cached_jobs)
                      ELSE callSt' = [callSt EXCEPT !.pc = "miss"]
              ELSE /\ keep \subseteq 1..Len(cached_jobs)
                   /\ IF cached_jobs # <<>> /\ Len(filtered) >= callSt.top_k
                      THEN RankAndReturn(filtered)
                      ELSE callSt' = [callSt EXCEPT !.pc = "miss"]

\* The fetch, the store and the ranking after a miss.  get_jobs_for_resume returns
\* [] when nothing was fetched; search_jobs_by_query stores only a list that is not
\* empty and ranks in any case.
FetchStoreRank ==
    /\ callSt.pc = "miss"
    /\ \E jobs \in JobLists, stored \in StoreOutcomes :
          IF jobs = <<>>
          THEN /\ stored = "no"
               /\ IF callSt.entry = "get_jobs_for_resume"
                  THEN callSt' = [callSt EXCEPT !.pc = "returned"]
                  ELSE RankAndReturn(jobs)
          ELSE IF stored # "no"
               THEN callSt' = [callSt EXCEPT !.pc = "raised", !.error = stored]
               ELSE RankAndReturn(jobs)

notCall == <<now, cachedJobs, searchQueries, sess, lastStoreAt, hashSt, fetchSt, splitSt, rankSt>>

InitService ==
    CacheInit /\ hashSt = Off /\ fetchSt = Off /\ splitSt = Off /\ rankSt = Off /\ ServiceInit

NextService ==
    \/ NoSkills /\ UNCHANGED notCall
    \/ CheckCache /\ UNCHANGED notCall
    \/ FetchStoreRank /\ UNCHANGED notCall

SpecService == InitService /\ [][NextService]_vars

\* The similarity of a candidate of the call to the profile.
SimilarityOf(id) ==
    LET at == CHOOSE i \in 1..Len(callSt.candidates) : callSt.candidates[i].id = id
    IN  Cosine(callSt.candidates[at].embedding, callSt.resume)

CandidateIds == {callSt.candidates[i].id : i \in 1..Len(callSt.candidates)}

\* C12: _rank_jobs returns at most top_k jobs, each a candidate with its similarity
\* as match_score, in an order in which no job comes before one of higher
\* similarity, and no candidate left out has a higher similarity than a job that
\* was returned.
C12_RankedByScoreTopK ==
    callSt.pc = "returned" =>
        /\ Len(callSt.jobs) <= callSt.top_k
        /\ \A i \in 1..Len(callSt.jobs) :
              /\ callSt.jobs[i].id \in CandidateIds
              /\ callSt.jobs[i].match_score = SimilarityOf(callSt.jobs[i].id)
        /\ \A i, j \in 1..Len(callSt.jobs) :
              i < j => /\ callSt.jobs[i].id # callSt.jobs[j].id
                       /\ ~MatchLess(SimilarityOf(callSt.jobs[i].id),
                                     SimilarityOf(callSt.jobs[j].id))
        /\ \A c \in CandidateIds, i \in 1..Len(callSt.jobs) :
              (\A j \in 1..Len(callSt.jobs) : callSt.jobs[j].id # c)
                  => ~MatchLess(SimilarityOf(callSt.jobs[i].id), SimilarityOf(c))

\* Three candidates, the best of them last, ranked for top_k = 2.
C12_Witness ==
    /\ callSt.pc = "returned"
    /\ callSt.top_k = 2
    /\ callSt.resume = <<1, 0>>
    /\ Len(callSt.candidates) = 3
    /\ callSt.candidates[1].embedding = <<-1, 1>>
    /\ callSt.candidates[2].embedding = <<1, 1>>
    /\ callSt.candidates[3].embedding = <<1, 0>>
    /\ Len(callSt.jobs) = 2
    /\ callSt.jobs[1].id = 3
    /\ callSt.jobs[2].id = 2

\* C13 (as stated): every job the ranking returns carries a match_score, and the
\* score lies in [0, 1].
C13_MatchScoreInUnitInterval ==
    callSt.pc = "returned" =>
        \A i \in 1..Len(callSt.jobs) :
            /\ "match_score" \in DOMAIN callSt.jobs[i]
            /\ callSt.jobs[i].match_score.dot >= 0
            /\ callSt.jobs[i].match_score.dot * callSt.jobs[i].match_score.dot
                  <= callSt.jobs[i].match_score.n2

\* C13 (amended): every job the ranking returns carries a match_score, the cosine
\* of the angle between the embedding of the job and that of the profile, which
\* lies in [-1, 1].
C13_MatchScoreIsCosine ==
    callSt.pc = "returned" =>
        \A i \in 1..Len(callSt.jobs) :
            /\ "match_score" \in DOMAIN callSt.jobs[i]
            /\ callSt.jobs[i].match_score = SimilarityOf(callSt.jobs[i].id)
            /\ callSt.jobs[i].match_score.dot * callSt.jobs[i].match_score.dot
                  <= callSt.jobs[i].match_score.n2

\* A job returned with a score below zero, after a job with a score of 1.
C13_Witness ==
    /\ callSt.pc = "returned"
    /\ Len(callSt.jobs) = 2
    /\ callSt.jobs[1].match_score = [dot |-> 2, n2 |-> 4]
    /\ callSt.jobs[2].match_score.dot < 0

\* C18: a call of an entry point of the service for a profile without skills ends
\* with an empty list of jobs and never with an exception.
C18_EmptySkillsEmptyResult ==
    callSt.skills_empty /\ callSt.pc \in {"returned", "raised"} =>
        callSt.pc = "returned" /\ callSt.jobs = <<>>

(***************************************************************************)
(* _rank_jobs with Embedder.embed_batch: the texts of the jobs are         *)
(* embedded as a batch, and a job can have a blank text (no title,         *)
(* company, location, type, description or requirements).                  *)
(***************************************************************************)
\* A job of the list: its place, whether create_embedding_text gives a blank text
\* for it, and the embedding of the text if it is not blank.
BatchJobs(i) ==
    {[id |-> i, blank |-> TRUE]}
        \cup {[id |-> i, blank |-> FALSE, embedding |-> e] : e \in Embeddings}

RECURSIVE BatchJobLists(_)
\* The lists of n jobs or less.
BatchJobLists(n) ==
    IF n = 0 THEN {<<>>}
    ELSE LET shorter == BatchJobLists(n - 1)
         IN  shorter \cup {Append(q, job) : q \in {t \in shorter : Len(t) = n - 1},
                                            job \in BatchJobs(n)}

\* embed_batch: valid_texts = [t for t in texts if t and t.strip()], encoded in
\* that order.
embed_batch(jobs) ==
    LET valid_texts == SelectSeq(jobs, LAMBDA job : ~job.blank)
    IN  [i \in 1..Len(valid_texts) |-> valid_texts[i].embedding]

\* for job, score in zip(jobs, similarities): job['match_score'] = float(score).
\* zip stops at the shorter of the two; has_score tells the jobs it reached.
ZipScored(jobs, job_embeddings, resume_embedding) ==
    [i \in 1..Len(jobs) |->
        IF i <= Len(job_embeddings)
        THEN [id |-> jobs[i].id, has_score |-> TRUE,
              match_score |-> Cosine(job_embeddings[i], resume_embedding)]
        ELSE [id |-> jobs[i].id, has_score |-> FALSE]]

\* _rank_jobs, lines 151-179.  With no valid text the model encodes an empty list
\* and the division by the norms along axis 1 fails on what it returns; a job that
\* zip did not reach has no match_score, and the key of sorted raises KeyError.
rank_batch(jobs, resume_embedding, top_k) ==
    LET job_embeddings == embed_batch(jobs)
        scored == ZipScored(jobs, job_embeddings, resume_embedding)
    IN  IF jobs = <<>> THEN Returned(<<>>)
        ELSE IF job_embeddings = <<>> THEN Raised("AxisError")
        ELSE IF \E i \in 1..Len(scored) : ~scored[i].has_score THEN Raised("KeyError")
        ELSE Returned(Take(Ranked(scored), top_k))

BatchInit ==
    \E jobs \in BatchJobLists(MaxCandidates), resume \in Embeddings, top_k \in 0..MaxTopK :
        callSt = [pc |-> "batch", candidates |-> jobs, resume |-> resume, top_k |-> top_k,
                  jobs |-> <<>>, error |-> "no"]

RankBatch ==
    /\ callSt.pc = "batch"
    /\ LET out == rank_batch(callSt.candidates, callSt.resume, callSt.top_k)
       IN  callSt' = [callSt EXCEPT !.pc = "ranked", !.jobs = out.jobs, !.error = out.error]

InitBatch ==
    CacheInit /\ hashSt = Off /\ fetchSt = Off /\ splitSt = Off /\ rankSt = Off /\ BatchInit

NextBatch == RankBatch /\ UNCHANGED notCall

SpecBatch == InitBatch /\ [][NextBatch]_vars

ResumeKeySkills == 10
QueryKeySkills == 5

\* The k-th of the skill names "a", "aa", "aaa", ...
SkillName(k) == [i \in 1..k |-> "a"]

\* A list with the elements at two places exchanged.
Swapped(list, i, j) ==
    [k \in 1..Len(list) |-> IF k = i THEN list[j] ELSE IF k = j THEN list[i] ELSE list[k]]

\* settings.DEFAULT_LOCATION and the level of the profile.
DefaultLocation == Location(<<"A">>)
ProfileLevel == <<"a">>

\* The skills passed to check_cached_jobs: job_service.py 46 and 60-63; 196.
lookup_key(entry, skills) ==
    IF entry = "get_jobs_for_resume"
    THEN generate_query_hash(Take(skills, ResumeKeySkills), ProfileLevel, DefaultLocation)
    ELSE generate_query_hash(Take(skills, QueryKeySkills), ProfileLevel, DefaultLocation)

\* The skills passed to store_jobs_in_cache: job_service.py 46 and 90-94; 219-222.
store_key(entry, skills) ==
    IF entry = "get_jobs_for_resume"
    THEN generate_query_hash(Take(skills, ResumeKeySkills), ProfileLevel, DefaultLocation)
    ELSE generate_query_hash(skills, ProfileLevel, DefaultLocation)

\* A request of a profile with n skills, and a second profile with the same skills
\* in another order.
KeysInit ==
    \E entry \in {"get_jobs_for_resume", "search_jobs_by_query"}, n \in 1..MaxProfileSkills :
        \E i \in 1..n, j \in 1..n, k \in 1..n, l \in 1..n :
            /\ i <= j /\ k <= l
            /\ callSt = [pc |-> "keys", entry |-> entry,
                         skills |-> Swapped([m \in 1..n |-> SkillName(m)], i, j),
                         permuted |-> Swapped([m \in 1..n |-> SkillName(m)], k, l),
                         looked_up |-> <<>>, stored |-> <<>>, permuted_looked_up |-> <<>>]

\* A miss for the first profile followed by the store, and the lookup for the second.
DeriveKeys ==
    /\ callSt.pc = "keys"
    /\ callSt' = [callSt EXCEPT !.pc = "derived",
                     !.looked_up = lookup_key(callSt.entry, callSt.skills),
                     !.stored = store_key(callSt.entry, callSt.skills),
                     !.permuted_looked_up = lookup_key(callSt.entry, callSt.permuted)]

InitKeys ==
    CacheInit /\ hashSt = Off /\ fetchSt = Off /\ splitSt = Off /\ rankSt = Off /\ KeysInit

NextKeys == DeriveKeys /\ UNCHANGED notCall

SpecKeys == InitKeys /\ [][NextKeys]_vars

\* C24: in both operations the key under which the results are stored on a miss is
\* the key that was looked up.
C24_StoreKeyIsLookupKey ==
    callSt.pc = "derived" => callSt.stored = callSt.looked_up

\* C25: get_jobs_for_resume derives the same key for two profiles with the same
\* skills in a different order, whatever the number of skills.
C25_KeyInvariantUnderSkillOrder ==
    callSt.pc = "derived" /\ callSt.entry = "get_jobs_for_resume" =>
        callSt.permuted_looked_up = callSt.looked_up

(***************************************************************************)
(* detect_experience_level.  Of the text only what the patterns find is    *)
(* kept: whether a student pattern matched, whether an internship pattern  *)
(* matched, and the number of years of experience stated (0 if none).  An  *)
(* education entry is the sequence of the years 20dd written in its degree *)
(* and details, in the order of the text.                                  *)
(***************************************************************************)
\* current_year of detect_experience_level.
current_year == 2026

YearsWritten == (current_year - 2)..(current_year + 1)

EducationEntries == UNION {[1..n -> YearsWritten] : n \in 0..MaxYearsWritten}

RECURSIVE EducationListsOf(_, _)
\* The lists of at most n entries in which at most y years are written in all.
EducationListsOf(n, y) ==
    IF n = 0 THEN {<<>>}
    ELSE {<<>>} \cup
         UNION {{<<edu>> \o rest : rest \in EducationListsOf(n - 1, y - Len(edu))} :
                   edu \in {e \in EducationEntries : Len(e) <= y}}

EducationLists == EducationListsOf(MaxEducation, MaxYearsWritten)

\* A table with the bounds of mid and senior one year higher.
LevelOfYearsShifted(years_experience) ==
    IF years_experience = 0 THEN "entry"
    ELSE IF years_experience <= 2 THEN "entry"
    ELSE IF years_experience <= 6 THEN "mid"
    ELSE IF years_experience <= 9 THEN "senior"
    ELSE "lead"

\* The elif chain of lines 102-111.
LevelOfYears(years_experience) ==
    IF years_experience = 0 THEN "entry"
    ELSE IF years_experience <= 2 THEN "entry"
    ELSE IF years_experience <= 5 THEN "mid"
    ELSE IF years_experience <= 8 THEN "senior"
    ELSE "lead"

RECURSIVE EducationLoop(_, _, _)
\* The loop of lines 90-98: re.search gives the first year written in the entry.
EducationLoop(education, is_student, seeking_internship) ==
    IF education = <<>>
    THEN [is_student |-> is_student, seeking_internship |-> seeking_internship]
    ELSE LET edu == Head(education)
         IN  IF edu # <<>> /\ edu[1] >= current_year - 1
             THEN EducationLoop(Tail(education), TRUE,
                                seeking_internship \/ edu[1] > current_year)
             ELSE EducationLoop(Tail(education), is_student, seeking_internship)

detect_experience_level(student_cue, internship_cue, years_experience, education) ==
    LET flags == IF student_cue \/ years_experience = 0
                 THEN EducationLoop(education, student_cue, internship_cue)
                 ELSE [is_student |-> student_cue, seeking_internship |-> internship_cue]
    IN  [level |-> IF flags.is_student \/ flags.seeking_internship THEN "student"
                   ELSE LevelOfYears(years_experience),
         years_experience |-> years_experience,
         is_student |-> flags.is_student,
         seeking_internship |-> flags.seeking_internship]

LevelInit ==
    callSt \in [pc : {"detect"}, student_cue : BOOLEAN, internship_cue : BOOLEAN,
                years : 0..MaxYearsExperience, education : EducationLists,
                result : {[level |-> "none"]}]

Detect ==
    /\ callSt.pc = "detect"
    /\ callSt' = [callSt EXCEPT !.pc = "detected",
                     !.result = detect_experience_level(callSt.student_cue,
                                    callSt.internship_cue, callSt.years, callSt.education)]

InitLevel ==
    CacheInit /\ hashSt = Off /\ fetchSt = Off /\ splitSt = Off /\ rankSt = Off /\ LevelInit

NextLevel == Detect /\ UNCHANGED notCall

SpecLevel == InitLevel /\ [][NextLevel]_vars

\* C14: the level returned is student exactly when is_student or
\* seeking_internship is set in the result, whatever the years of experience;
\* else 0 to 2 years give entry, 3 to 5 mid, 6 to 8 senior and more lead.
C14_LevelFromFlagsThenYears ==
    callSt.pc = "detected" =>
        LET r == callSt.result
        IN  /\ (r.level = "student") <=> (r.is_student \/ r.seeking_internship)
            /\ r.level # "student" =>
                  /\ r.years_experience \in 0..2 => r.level = "entry"
                  /\ r.years_experience \in 3..5 => r.level = "mid"
                  /\ r.years_experience \in 6..8 => r.level = "senior"
                  /\ r.years_experience > 8 => r.level = "lead"
                  /\ r.level \in {"entry", "mid", "senior", "lead"}

\* Six years of experience and no flag give senior.
C14_Witness ==
    /\ callSt.pc = "detected"
    /\ callSt.years = 6
    /\ ~callSt.result.is_student /\ ~callSt.result.seeking_internship
    /\ callSt.result.level = "senior"

\* The years written in the education entries of the call.
YearsInEducation ==
    UNION {{callSt.education[i][j] : j \in 1..Len(callSt.education[i])} :
              i \in 1..Len(callSt.education)}

\* C15: when a student pattern matched or no experience is stated, a year of
\* current_year - 1 or later written in an education entry sets is_student, and a
\* year after current_year sets seeking_internship; when experience is stated and
\* no student pattern matched, the education changes nothing.
C15_EducationYearsForceStudent ==
    callSt.pc = "detected" =>
        LET r == callSt.result
        IN  /\ callSt.student_cue \/ callSt.years = 0 =>
                  /\ (\E y \in YearsInEducation : y >= current_year - 1) => r.is_student
                  /\ (\E y \in YearsInEducation : y > current_year) => r.seeking_internship
            /\ callSt.years > 0 /\ ~callSt.student_cue =>
                  /\ r.is_student = callSt.student_cue
                  /\ r.seeking_internship = callSt.internship_cue

(***************************************************************************)
(* JobCleaner.classify_job_level.  Of a title and of a description the     *)
(* keywords they contain are kept, and whether an entry keyword with a     *)
(* space in it ("new grad", "0-2 years") lies across the space that joins  *)
(* the title and the description.                                          *)
(***************************************************************************)
student_keywords == {"intern", "internship", "student", "co-op"}
entry_keywords == {"junior", "entry", "graduate", "associate", "new grad", "0-2 years"}
senior_keywords ==
    {"senior", "sr.", "sr ", "lead", "principal", "staff", "7+ years", "8+ years"}
lead_keywords == {"lead", "principal", "staff", "architect", "director", "10+ years"}

AllKeywords == student_keywords \cup entry_keywords \cup senior_keywords \cup lead_keywords

\* A text that contains "internship" contains "intern".
Contained(keywords) ==
    keywords \cup (IF "internship" \in keywords THEN {"intern"} ELSE {})

KeywordSets(n) == {Contained(k) : k \in {q \in SUBSET AllKeywords : Cardinality(q) <= n}}

JobTexts ==
    [title : KeywordSets(MaxTitleKeywords), description : KeywordSets(MaxDescriptionKeywords),
     across : BOOLEAN]

\* any(keyword in text for keyword in keywords), for text = title + ' ' + description
InText(job, keywords) ==
    \/ job.title \cap keywords # {}
    \/ job.description \cap keywords # {}
    \/ job.across /\ {"new grad", "0-2 years"} \cap keywords # {}

\* A classifier that asks for the lead keywords before the senior ones.
ClassifyLeadFirst(job) ==
    IF job.title \cap student_keywords # {} THEN "student"
    ELSE IF InText(job, entry_keywords) THEN "entry"
    ELSE IF job.title \cap lead_keywords # {} THEN "lead"
    ELSE IF job.title \cap senior_keywords # {} THEN "senior"
    ELSE "mid"

classify_job_level(job) ==
    IF job.title \cap student_keywords # {} THEN "student"
    ELSE IF InText(job, entry_keywords) THEN "entry"
    ELSE IF job.title \cap senior_keywords # {} THEN "senior"
    ELSE IF job.title \cap lead_keywords # {} THEN "lead"
    ELSE "mid"

ClassifyInit == callSt \in [pc : {"classify"}, job : JobTexts, level : {"none"}]

Classify ==
    /\ callSt.pc = "classify"
    /\ callSt' = [callSt EXCEPT !.pc = "classified", !.level = classify_job_level(callSt.job)]

InitClassify ==
    CacheInit /\ hashSt = Off /\ fetchSt = Off /\ splitSt = Off /\ rankSt = Off /\ ClassifyInit

NextClassify == Classify /\ UNCHANGED notCall

SpecClassify == InitClassify /\ [][NextClassify]_vars

\* The rules of the statement in their order: the level, and whether the job of
\* the call matches.
LevelRules ==
    <<[level |-> "student", matches |-> callSt.job.title \cap student_keywords # {}],
      [level |-> "entry", matches |-> InText(callSt.job, entry_keywords)],
      [level |-> "senior", matches |-> callSt.job.title \cap senior_keywords # {}],
      [level |-> "lead", matches |-> callSt.job.title \cap lead_keywords # {}],
      [level |-> "mid", matches |-> TRUE]>>

SectionTypes ==
    <<"skills", "projects", "experience", "education", "coursework", "certifications",
      "activities">>

SECTION_KEYWORDS ==
    [skills |-> {"skill", "technologies", "tools", "frameworks", "languages",
                 "proficiencies", "technical", "programming"},
     projects |-> {"project", "application", "system", "platform", "developed", "built",
                   "created"},
     experience |-> {"experience", "work", "intern", "employment", "position", "role", "job"},
     education |-> {"education", "university", "degree", "school", "college", "bachelor",
                    "master", "phd"},
     coursework |-> {"coursework", "courses", "subjects", "curriculum", "classes",
                     "relevant coursework"},
     certifications |-> {"certification", "certificate", "licensed", "accredited"},
     activities |-> {"activities", "leadership", "extracurricular", "extra-curricular",
                     "volunteer", "involvement"}]

SectionWords == UNION {SECTION_KEYWORDS[SectionTypes[i]] : i \in 1..Len(SectionTypes)}

\* A text that contains "relevant coursework" contains "coursework", and one that
\* contains "coursework" or "frameworks" contains "work".
ContainedInSection(keywords) ==
    keywords
        \cup (IF "relevant coursework" \in keywords THEN {"coursework", "work"} ELSE {})
        \cup (IF "coursework" \in keywords THEN {"work"} ELSE {})
        \cup (IF "frameworks" \in keywords THEN {"work"} ELSE {})

RECURSIVE SubsetsUpTo(_, _)
\* The subsets of a set that have n elements or less.
SubsetsUpTo(set, n) ==
    IF n = 0 THEN {{}}
    ELSE LET smaller == SubsetsUpTo(set, n - 1)
         IN  smaller \cup {q \cup {x} : q \in smaller, x \in set}

\* The texts with n keywords or less.
SectionTexts(n) == {ContainedInSection(k) : k \in SubsetsUpTo(SectionWords, n)}

\* scores[section_type] = sum(1 for keyword in keywords if keyword in text)
Scores(text) ==
    [i \in 1..Len(SectionTypes) |-> Cardinality(text \cap SECTION_KEYWORDS[SectionTypes[i]])]

\* The last of the types with the highest score.
BestMatchLast(scores) ==
    CHOOSE i \in 1..Len(scores) :
        /\ \A j \in 1..Len(scores) : scores[j] <= scores[i]
        /\ \A j \in (i + 1)..Len(scores) : scores[j] < scores[i]

\* max(scores, key=scores.get): the first key, in the order of the dict, among
\* those of the highest score.
best_match(scores) ==
    CHOOSE i \in 1..Len(scores) :
        /\ \A j \in 1..Len(scores) : scores[j] <= scores[i]
        /\ \A j \in 1..(i - 1) : scores[j] < scores[i]

classify_section(header_coursework, text) ==
    IF header_coursework THEN "coursework"
    ELSE LET scores == Scores(text)
             best == best_match(scores)
         IN  IF scores[best] > 0 THEN SectionTypes[best] ELSE "other"

\* A heading that contains "coursework" puts it into the text.  text: the keywords
\* that occur in the heading and content; repeated: one of them that is written
\* twice, or none.
SectionInit ==
    \E header_coursework \in BOOLEAN, text \in SectionTexts(MaxSectionKeywords) :
        /\ header_coursework => "coursework" \in text
        /\ \E repeated \in text \cup {"none"} :
              callSt = [pc |-> "section", header_coursework |-> header_coursework,
                        text |-> text, repeated |-> repeated, scores |-> <<>>,
                        type |-> "none"]

\* scores is kept as it is computed on line 50, also when the heading decides.
ClassifySection ==
    /\ callSt.pc = "section"
    /\ callSt' = [callSt EXCEPT !.pc = "typed",
                     !.scores = Scores(callSt.text),
                     !.type = classify_section(callSt.header_coursework, callSt.text)]

InitSection ==
    CacheInit /\ hashSt = Off /\ fetchSt = Off /\ splitSt = Off /\ rankSt = Off /\ SectionInit

NextSection == ClassifySection /\ UNCHANGED notCall

SpecSection == InitSection /\ [][NextSection]_vars

\* The number of keywords of a type in the text of the call.
ScoreOf(type) == Cardinality(callSt.text \cap SECTION_KEYWORDS[type])

\* The place of a type in the table.
PlaceOf(type) == CHOOSE i \in 1..Len(SectionTypes) : SectionTypes[i] = type

\* C17: for a heading without "coursework", the type returned has the highest
\* score, it is the first in the order of the table among the types with that
\* score, and other is returned exactly when every type scores 0.
C17_HighestScoreFirstInTable ==
    callSt.pc = "typed" /\ ~callSt.header_coursework =>
        /\ callSt.type = "other" <=>
              \A i \in 1..Len(SectionTypes) : ScoreOf(SectionTypes[i]) = 0
        /\ callSt.type # "other" =>
              /\ \E i \in 1..Len(SectionTypes) : SectionTypes[i] = callSt.type
              /\ \A i \in 1..Len(SectionTypes) :
                    ScoreOf(SectionTypes[i]) <= ScoreOf(callSt.type)
              /\ \A i \in 1..(PlaceOf(callSt.type) - 1) :
                    ScoreOf(SectionTypes[i]) < ScoreOf(callSt.type)

\* A text with one keyword of skills and one of projects is typed skills.
C17_Witness ==
    /\ callSt.pc = "typed"
    /\ ~callSt.header_coursework
    /\ callSt.text = {"skill", "project"}
    /\ callSt.type = "skills"

\* How often a keyword occurs in the text of the call: a keyword written twice
\* occurs twice, and so does every keyword contained in it.
OccurrencesOf(keyword) ==
    IF keyword \notin callSt.text THEN 0
    ELSE IF callSt.repeated # "none" /\ keyword \in ContainedInSection({callSt.repeated})
    THEN 2
    ELSE 1

RECURSIVE SumOfOccurrences(_)
SumOfOccurrences(keywords) ==
    IF keywords = {} THEN 0
    ELSE LET keyword == CHOOSE k \in keywords : TRUE
         IN  OccurrencesOf(keyword) + SumOfOccurrences(keywords \ {keyword})

\* C23: the score of a type is the number of occurrences of its keywords in the
\* text, a keyword that occurs k times counting k.
C23_ScoreCountsOccurrences ==
    callSt.pc = "typed" =>
        \A i \in 1..Len(SectionTypes) :
            callSt.scores[i] = SumOfOccurrences(SECTION_KEYWORDS[SectionTypes[i]])

(***************************************************************************)
(* extract_projects_from_section.  A block is the sequence of its lines,   *)
(* each line given by what the tests of the loop find in it; a line is     *)
(* named by its place in the block, and a text taken from a line by the    *)
(* line and the part of it that was kept.                                  *)
(***************************************************************************)
\* blank: empty after strip.  special: one of the two skipped glyphs.  title: a
\* line that looks like a title.  heading_title: one that looks like a title and is
\* the name of a section ("Technical Skills").  explicit: starts with "Tech Stack:",
\* "Technologies:", "Stack:" or "Built with:".  implicit: a short line with a comma
\* and no closing period that is none of the former.  bullet: starts with a bullet
\* glyph; bare_bullet: nothing but the glyph.  text: any other line.
ProjectLineKinds ==
    {"blank", "special", "title", "heading_title", "explicit", "implicit", "bullet",
     "bare_bullet", "text"}

TitleKinds == {"title", "heading_title"}

Text(line, part) == [line |-> line, part |-> part]
EmptyText == Text(0, "none")
Space == Text(0, "space")

NoProject == [open |-> FALSE]

NewProject(line) ==
    [open |-> TRUE, title |-> line, technologies |-> EmptyText, description |-> <<>>]

\* A loop in which an empty line leaves the project open.
AfterBlankKeepOpen(st) == st

\* Lines 28-35: an empty line closes the project that is open.
AfterBlank(st) ==
    IF st.current.open
    THEN [st EXCEPT !.projects = Append(@, st.current), !.current = NoProject,
                    !.seen_tech_stack = FALSE]
    ELSE st

\* Lines 84-92: description += " " if it is not empty, then += the text.
Described(project, texts) ==
    [project EXCEPT !.description =
        (IF @ # <<>> THEN Append(@, Space) ELSE @) \o texts]

\* Lines 64-92 for the line at place i.
AfterLine(st, kind, i) ==
    IF kind \in TitleKinds /\ ~st.current.open
    THEN [st EXCEPT !.current = NewProject(i), !.seen_tech_stack = FALSE]
    ELSE IF kind = "explicit" /\ st.current.open
    THEN [st EXCEPT !.current.technologies = Text(i, "after_prefix"),
                    !.seen_tech_stack = TRUE]
    ELSE IF kind = "implicit" /\ st.current.open /\ ~st.seen_tech_stack
    THEN [st EXCEPT !.current.technologies = Text(i, "all"), !.seen_tech_stack = TRUE]
    ELSE IF kind = "bullet" /\ st.current.open
    THEN [st EXCEPT !.current = Described(@, <<Text(i, "after_bullet")>>)]
    ELSE IF kind = "bare_bullet" /\ st.current.open
    THEN [st EXCEPT !.current = Described(@, <<>>)]
    ELSE IF st.current.open /\ st.current.description # <<>>
    THEN [st EXCEPT !.current.description = @ \o <<Space, Text(i, "all")>>]
    ELSE st

RECURSIVE ProjectLoop(_, _, _)
ProjectLoop(lines, i, st) ==
    IF i > Len(lines) THEN st
    ELSE ProjectLoop(lines, i + 1,
            IF lines[i] = "blank" THEN AfterBlank(st)
            ELSE IF lines[i] = "special" THEN st
            ELSE AfterLine(st, lines[i], i))

\* The whole function: the loop, the last project, and the final validation, which
\* drops a project whose title is the name of a section.
extract_projects_from_section(lines) ==
    LET st == ProjectLoop(lines, 1,
                  [projects |-> <<>>, current |-> NoProject, seen_tech_stack |-> FALSE])
        projects == IF st.current.open THEN Append(st.projects, st.current)
                    ELSE st.projects
    IN  SelectSeq(projects, LAMBDA proj : lines[proj.title] # "heading_title")

ProjectsCall(lines) ==
    [pc |-> "projects", lines |-> lines, projects |-> extract_projects_from_section(lines)]

ProjectsInit == callSt = ProjectsCall(<<>>)

\* The next call is for the block of the last call with one more line.
LongerBlock ==
    /\ callSt.pc = "projects"
    /\ Len(callSt.lines) < MaxProjectLines
    /\ \E kind \in ProjectLineKinds : callSt' = ProjectsCall(Append(callSt.lines, kind))

InitProjects ==
    CacheInit /\ hashSt = Off /\ fetchSt = Off /\ splitSt = Off /\ rankSt = Off /\ ProjectsInit

NextProjects == LongerBlock /\ UNCHANGED notCall

SpecProjects == InitProjects /\ [][NextProjects]_vars

\* The lines of the block that open a project are the title-like lines with no
\* title-like line between them and the last empty line before them; the lines of
\* the project run to the next empty line.
LastBlankBefore(lines, i) ==
    LET blanks == {j \in 1..(i - 1) : lines[j] = "blank"}
    IN  IF blanks = {} THEN 0 ELSE CHOOSE j \in blanks : \A k \in blanks : k <= j

Opens(lines, i) ==
    /\ lines[i] \in TitleKinds
    /\ \A j \in (LastBlankBefore(lines, i) + 1)..(i - 1) : lines[j] \notin TitleKinds

LinesOf(lines, title) ==
    {i \in (title + 1)..Len(lines) : \A j \in (title + 1)..i : lines[j] # "blank"}

RECURSIVE Ascending(_)
Ascending(set) ==
    IF set = {} THEN <<>>
    ELSE LET least == CHOOSE i \in set : \A j \in set : i <= j
         IN  <<least>> \o Ascending(set \ {least})

Titles(projects) == [k \in 1..Len(projects) |-> projects[k].title]

TextsOf(description) == SelectSeq(description, LAMBDA t : t # Space)

TechnologiesAsClaimed(lines, proj) ==
    LET explicit == {i \in LinesOf(lines, proj.title) : lines[i] = "explicit"}
        implicit == {i \in LinesOf(lines, proj.title) : lines[i] = "implicit"}
    IN  IF explicit # {}
        THEN \E i \in explicit : proj.technologies = Text(i, "after_prefix")
        ELSE IF implicit # {}
        THEN proj.technologies = Text(CHOOSE i \in implicit : \A j \in implicit : i <= j, "all")
        ELSE proj.technologies = EmptyText

BulletsAsClaimed(lines, proj) ==
    LET d == proj.description
        bullets == {i \in LinesOf(lines, proj.title) : lines[i] = "bullet"}
    IN  /\ SelectSeq(d, LAMBDA t : t.part = "after_bullet")
             = [k \in 1..Cardinality(bullets) |-> Text(Ascending(bullets)[k], "after_bullet")]
        /\ \A t \in {d[k] : k \in 1..Len(d)} : t.line \in bullets => t.part = "after_bullet"
        /\ \A k \in 1..Len(d) :
               d[k] # Space /\ k > 1
                   => /\ d[k - 1] = Space
                      /\ (k > 2 /\ d[k - 2] = Space
                             => \E b \in LinesOf(lines, proj.title) :
                                    b < d[k].line /\ lines[b] = "bare_bullet")

\* C19: in the projects of a block, an explicit tech stack line of the project gives
\* its technologies, otherwise its first implicit line does and no later one; the
\* bullet lines of the project are in its description in order, without the bullet,
\* separated by one space; and the projects returned are those opened by the
\* title-like lines that have no project open before them, an empty line closing the
\* open project.
C19_ProjectLines ==
    callSt.pc = "projects" =>
        /\ Titles(callSt.projects)
             = SelectSeq(Ascending({i \in 1..Len(callSt.lines) : Opens(callSt.lines, i)}),
                         LAMBDA i : callSt.lines[i] = "title")
        /\ \A k \in 1..Len(callSt.projects) :
               /\ TechnologiesAsClaimed(callSt.lines, callSt.projects[k])
               /\ BulletsAsClaimed(callSt.lines, callSt.projects[k])

\* The block of the claim: a title, "Tech Stack: Python, FAISS", one bullet; and a
\* block in which an empty line is followed by a second title.
C19_Witness ==
    /\ callSt.pc = "projects"
    /\ \/ /\ callSt.lines = <<"title", "explicit", "bullet">>
          /\ callSt.projects = <<[open |-> TRUE, title |-> 1,
                                  technologies |-> Text(2, "after_prefix"),
                                  description |-> <<Text(3, "after_bullet")>>]>>
       \/ /\ callSt.lines = <<"title", "implicit", "blank", "title">>
          /\ Titles(callSt.projects) = <<1, 4>>
          /\ callSt.projects[1].technologies = Text(2, "all")

(***************************************************************************)
(* extract_education_from_section.  A line of the block is empty or is     *)
(* given by the three tests of the loop; the degree and the details of an  *)
(* entry are the lines appended to them, which the code joins with one     *)
(* space.                                                                  *)
(***************************************************************************)
BlankLine == [blank |-> TRUE]

\* has_degree_info, is_graduation_info and looks_like_institution are independent:
\* "Stanford University" has the third alone, "University, B.Tech, expected 2027" all.
EducationLines ==
    {BlankLine}
        \cup [blank : {FALSE}, looks_like_institution : BOOLEAN,
              has_degree_info : BOOLEAN, is_graduation_info : BOOLEAN]

NoEntry == [open |-> FALSE]

\* Lines 147-171 for the line at place i.
AfterEducationLine(current_entry, line, i) ==
    IF line.looks_like_institution /\ ~current_entry.open
    THEN [open |-> TRUE, institution |-> i, degree |-> <<>>, details |-> <<>>]
    ELSE IF current_entry.open /\ line.has_degree_info
    THEN [current_entry EXCEPT !.degree = Append(@, i)]
    ELSE IF current_entry.open
    THEN [current_entry EXCEPT !.details = Append(@, i)]
    ELSE current_entry

RECURSIVE EducationEntryLoop(_, _, _)
EducationEntryLoop(lines, i, current_entry) ==
    IF i > Len(lines) THEN current_entry
    ELSE EducationEntryLoop(lines, i + 1,
            IF lines[i].blank THEN current_entry
            ELSE AfterEducationLine(current_entry, lines[i], i))

\* The whole function: current_entry is set once and appended after the loop.
extract_education_from_section(lines) ==
    LET current_entry == EducationEntryLoop(lines, 1, NoEntry)
    IN  IF current_entry.open THEN <<current_entry>> ELSE <<>>

EducationCall(lines) ==
    [pc |-> "education", lines |-> lines,
     education |-> extract_education_from_section(lines)]

EducationInit == callSt = EducationCall(<<>>)

\* The next call is for the block of the last call with one more line.
LongerEducationBlock ==
    /\ callSt.pc = "education"
    /\ Len(callSt.lines) < MaxEducationLines
    /\ \E line \in EducationLines : callSt' = EducationCall(Append(callSt.lines, line))

InitEducation ==
    CacheInit /\ hashSt = Off /\ fetchSt = Off /\ splitSt = Off /\ rankSt = Off /\ EducationInit

NextEducation == LongerEducationBlock /\ UNCHANGED notCall

SpecEducation == InitEducation /\ [][NextEducation]_vars

InstitutionLines(lines) ==
    {i \in 1..Len(lines) : ~lines[i].blank /\ lines[i].looks_like_institution}

\* The lines after the institution line at place i up to the next institution line.
LinesUnder(lines, i) ==
    {j \in (i + 1)..Len(lines) :
        /\ ~lines[j].blank
        /\ \A k \in (i + 1)..j : k \notin InstitutionLines(lines)}

\* C20: every institution-indicator line opens an entry of its own, so that a block
\* with n such lines yields n entries; the degree of an entry holds the degree lines
\* that follow its institution line and its details every other line that does.
C20_EntryPerInstitutionLine ==
    callSt.pc = "education" =>
        LET places == Ascending(InstitutionLines(callSt.lines))
        IN  /\ Len(callSt.education) = Len(places)
            /\ \A k \in 1..Len(places) :
                   /\ callSt.education[k].institution = places[k]
                   /\ callSt.education[k].degree
                        = Ascending({j \in LinesUnder(callSt.lines, places[k]) :
                                        callSt.lines[j].has_degree_info})
                   /\ callSt.education[k].details
                        = Ascending({j \in LinesUnder(callSt.lines, places[k]) :
                                        ~callSt.lines[j].has_degree_info})

(***************************************************************************)
(* clean_and_filter_skills and extract_skills_dynamic.  A candidate is a   *)
(* term in one of two spellings, with a capital or a small first letter;   *)
(* str.lower() gives the spelling with the small letter.                   *)
(***************************************************************************)
\* The terms, in the order sorted() gives them: a month (on the blacklist and a date
\* fragment), a known skill of one letter, an unknown term with '/', a known skill,
\* a term with '&', an unknown plain term, and a letter that is no known skill.
SkillTerms == <<"august", "c", "ci/cd", "python", "r&d", "terraform", "x">>

TermSet == {SkillTerms[i] : i \in 1..Len(SkillTerms)}

Candidates == [term : TermSet, capital : BOOLEAN]

\* skill.lower()
LowerSkill(skill) == [skill EXCEPT !.capital = FALSE]

\* known_skills (lines 349-358), NON_SKILL_TERMS, is_date_or_location_fragment.
known_skills == {"python", "c"}
NON_SKILL_TERMS == {"august"}
is_date_or_location_fragment(skill) == skill.term = "august"

\* The drop rules of lines 315-345 that come before the whitelist: the blacklist,
\* dates and locations, special characters, single letters other than c and r.
DroppedEarly(skill) ==
    \/ skill.term \in NON_SKILL_TERMS
    \/ is_date_or_location_fragment(skill)
    \/ skill.term = "r&d"
    \/ skill.term = "x"

\* A filter that takes no term for a sentence fragment.
NeverFragment(skill) == FALSE

\* Line 369: skill[0].islower() and '-' not in skill and '/' not in skill and '.'
\* not in skill.
IsFragment(skill) == ~skill.capital /\ skill.term # "ci/cd"

\* The candidates that reach cleaned.add (lines 363-372).
Accepted(skill) ==
    /\ ~DroppedEarly(skill)
    /\ skill.term \in known_skills \/ ~IsFragment(skill)

\* sorted(cleaned), with cleaned the set of the lower-cased accepted candidates.
clean_and_filter_skills(skills) ==
    LET cleaned == {LowerSkill(skill) : skill \in {c \in skills : Accepted(c)}}
    IN  SelectSeq([i \in 1..Len(SkillTerms) |-> [term |-> SkillTerms[i], capital |-> FALSE]],
                  LAMBDA skill : skill \in cleaned)

\* extract_from_explicit_skill_listings for the items of a listing whose category
\* is a skill category: every item of 1 to 5 words that is no date or location is
\* added in lower case (lines 120-134).
extract_from_explicit_skill_listings(items) ==
    {LowerSkill(item) : item \in {c \in items : ~is_date_or_location_fragment(c)}}

\* extract_skills_dynamic.  others: what the five other strategies found; each of
\* them adds its terms in lower case (lines 185, 187, 210, 248, 275, 301).
extract_skills_dynamic(items, others) ==
    clean_and_filter_skills(
        extract_from_explicit_skill_listings(items) \cup {LowerSkill(c) : c \in others})

SkillsInit ==
    \E skills \in SubsetsUpTo(Candidates, MaxSkillCandidates) :
        \/ callSt = [pc |-> "clean", skills |-> skills, others |-> {}, result |-> <<>>]
        \/ \E others \in SubsetsUpTo(Candidates, MaxOtherCandidates) :
              callSt = [pc |-> "extract", skills |-> skills, others |-> others,
                        result |-> <<>>]

\* A call of clean_and_filter_skills on a set of candidates.
CleanAndFilter ==
    /\ callSt.pc = "clean"
    /\ callSt' = [callSt EXCEPT !.pc = "cleaned",
                     !.result = clean_and_filter_skills(callSt.skills)]

\* A call of extract_skills_dynamic on a text whose skill listing holds the items.
ExtractSkills ==
    /\ callSt.pc = "extract"
    /\ callSt' = [callSt EXCEPT !.pc = "extracted",
                     !.result = extract_skills_dynamic(callSt.skills, callSt.others)]

InitSkills ==
    CacheInit /\ hashSt = Off /\ fetchSt = Off /\ splitSt = Off /\ rankSt = Off /\ SkillsInit

NextSkills ==
    \/ CleanAndFilter /\ UNCHANGED notCall
    \/ ExtractSkills /\ UNCHANGED notCall

SpecSkills == InitSkills /\ [][NextSkills]_vars

\* The place of a term in the order of sorted().
TermPlace(term) == CHOOSE i \in 1..Len(SkillTerms) : SkillTerms[i] = term

ResultSet == {callSt.result[i] : i \in 1..Len(callSt.result)}

\* The list is sorted, without duplicates and in lower case, and holds every
\* whitelisted candidate that passes the earlier drop rules.
SortedLowerWithKnown ==
    /\ \A i \in 1..Len(callSt.result) : ~callSt.result[i].capital
    /\ \A i \in 1..(Len(callSt.result) - 1) :
          TermPlace(callSt.result[i].term) < TermPlace(callSt.result[i + 1].term)
    /\ \A skill \in callSt.skills :
          skill.term \in known_skills /\ ~DroppedEarly(skill)
              => LowerSkill(skill) \in ResultSet

\* A candidate off the whitelist with a small first letter and none of '-', '/', '.'
UnknownFragment(skill) ==
    skill.term \notin known_skills /\ ~skill.capital /\ skill.term # "ci/cd"

C30_ListedItemsReturned ==
    callSt.pc = "extracted" =>
        \A item \in callSt.skills :
            /\ item.capital
            /\ item.term \notin NON_SKILL_TERMS
            /\ ~is_date_or_location_fragment(item)
            => LowerSkill(item) \in ResultSet

(***************************************************************************)
(* Properties of the cache protocol.                                      *)
(***************************************************************************)

\* C1: the jobs a lookup for key K at time t returns all carry K as their stored key
\* and an expires_at strictly greater than t; and a lookup returns jobs for K only
\* at a time earlier than the last store for K plus the TTL, so that from that time
\* on it returns nothing.
C1_LookupReturnsOnlyLiveJobsOfKey ==
    \A r \in Requests :
        sess[r].pc = "check_commit" =>
            /\ \A j \in sess[r].ret : j.hash = sess[r].key /\ j.exp > sess[r].lookupAt
            /\ sess[r].ret # {}
            /\ lastStoreAt[sess[r].key] >= 0
            /\ sess[r].lookupAt < lastStoreAt[sess[r].key] + TtlDays

\* A lookup returns a job of its key while the table also holds a job of the other
\* key and a job of its own key that has expired has been dropped from the answer.
C1_Witness ==
    \E r \in Requests : \E j \in JobIds :
        /\ sess[r].pc = "check_commit"
        /\ Cardinality(sess[r].ret) = 1
        /\ cachedJobs[j].present
        /\ cachedJobs[j].hash # sess[r].key
        /\ sess[r].lookupAt > 0

\* The step in which request r returns the ranked cached jobs.
HitReturn(r) == sess[r].pc = "check_commit" /\ sess'[r].pc = "idle"

\* C5: a cache hit changes only query_count and last_fetched_at of the query
\* record of its key: every cached job row, every other query record and the
\* expires_at of the record itself are what they were before the hit.
C5_HitChangesOnlyBookkeeping ==
    [][\A r \in Requests :
          HitReturn(r) =>
              /\ cachedJobs' = cachedJobs
              /\ \A k \in Keys \ {sess[r].key} : searchQueries'[k] = searchQueries[k]
              /\ searchQueries[sess[r].key].present
              /\ searchQueries'[sess[r].key].present
              /\ searchQueries'[sess[r].key].exp = searchQueries[sess[r].key].exp
              /\ searchQueries'[sess[r].key].count = searchQueries[sess[r].key].count + 1
              /\ searchQueries'[sess[r].key].last \in searchQueries[sess[r].key].last..now]_vars

\* A hit has been served for key k later than the last store for k: the record was
\* touched at a time at which one of k's jobs was still live, and it still expires
\* one TTL after that store.
C5_Witness ==
    \E k \in Keys : \E j \in JobIds :
        /\ \A r \in Requests : ~InFlight(r)
        /\ searchQueries[k].present
        /\ lastStoreAt[k] >= 0
        /\ searchQueries[k].last > lastStoreAt[k]
        /\ searchQueries[k].count >= 2
        /\ searchQueries[k].exp = lastStoreAt[k] + TtlDays
        /\ cachedJobs[j].present
        /\ cachedJobs[j].hash = k
        /\ cachedJobs[j].exp > searchQueries[k].last

\* The step in which request r ends, with its answer or with an exception.
RequestEnds(r) == InFlight(r) /\ sess[r].pc # "failed" /\ sess'[r].pc \in {"idle", "failed"}

\* C3: a request that gets jobs from the lookup never calls the job source and
\* writes no job row; a request that misses calls the source once, and when it ends
\* every job the source returned is stored under the request's key with expires_at
\* equal to the store time plus the TTL.
C3_HitSkipsSourceMissStoresAll ==
    [][\A r \in Requests :
          /\ HitReturn(r) => sess[r].calls = 0 /\ cachedJobs' = cachedJobs
          /\ RequestEnds(r) /\ sess[r].pc \in {"merge", "store_commit"} =>
                /\ sess[r].calls = 1
                /\ \A j \in JobIds :
                      sess[r].want[j] # "-" =>
                          cachedJobs'[j] = JobRow(sess[r].want[j], sess[r].key,
                                                  sess[r].storeAt + TtlDays)]_vars

\* C8: when a store call has gone through its jobs and commits, every job id it
\* included has one row carrying the fields of the id's last occurrence, the key of
\* the call and the call's expires_at, and the rows of the other ids are untouched.
C8_StoreLeavesLastValues ==
    [][\A r \in Requests :
          sess[r].pc = "store_commit" /\ sess'[r].pc # "store_commit" =>
              \A j \in JobIds :
                  cachedJobs'[j] = IF sess[r].want[j] # "-"
                                   THEN JobRow(sess[r].want[j], sess[r].key,
                                               sess[r].storeAt + TtlDays)
                                   ELSE cachedJobs[j]]_vars

\* C4: requests that interleave their stores all complete: none is ended by the
\* unique constraint on the query hash, which a second record for a key would break.
C4_InterleavedStoresComplete ==
    \A r \in Requests :
        ~(sess[r].pc = "failed" /\ sess[r].doomed = "unique_query_hash")

\* C26: a job stored under key K stays a row of K until its expires_at, whatever
\* is stored under other keys in between, so that a lookup of K, which returns the
\* rows of K that have not expired, returns it.
C26_StoredJobsStayUnderKey ==
    [][\A j \in JobIds :
          cachedJobs[j].present /\ cachedJobs[j].exp > now =>
              /\ cachedJobs'[j].present
              /\ cachedJobs'[j].hash = cachedJobs[j].hash]_vars

\* What a lookup of key k at time t returns: the live rows of k when the query
\* record of k is live, and nothing (a miss) otherwise.
LookupResult(k, t) == IF ValidQuery(k, t) THEN ValidJobs(k, t) ELSE {}

\* C27: the sweep deletes exactly the job rows and query records with expires_at <=
\* now and leaves the others as they are; the number it returns is the number of job
\* rows it deleted; and for every key a lookup at that time returns after the sweep
\* what it returns before it.
C27_CleanupDeletesExpiredOnly ==
    [][Cleanup =>
          /\ \A j \in JobIds :
                cachedJobs'[j] = IF cachedJobs[j].present /\ cachedJobs[j].exp <= now
                                 THEN NoRow ELSE cachedJobs[j]
          /\ \A k \in Keys :
                searchQueries'[k] = IF searchQueries[k].present /\ searchQueries[k].exp <= now
                                    THEN NoRow ELSE searchQueries[k]
          /\ jobs_deleted
               = Cardinality({j \in JobIds : cachedJobs[j].present /\ ~cachedJobs'[j].present})
          /\ \A k \in Keys : LookupResult(k, now)' = LookupResult(k, now)]_vars

\* The sweep has run: the query record of a key that was stored under is gone, no
\* row of that key is left, and a live row of the other key is still there.
C27_Witness ==
    \E k \in Keys : \E j \in JobIds :
        /\ \A r \in Requests : ~InFlight(r)
        /\ lastStoreAt[k] >= 0
        /\ now >= lastStoreAt[k] + TtlDays
        /\ ~searchQueries[k].present
        /\ \A i \in JobIds : cachedJobs[i].present => cachedJobs[i].hash # k
        /\ cachedJobs[j].present
        /\ cachedJobs[j].exp > now


====
